---------------------------- MODULE Spec2Model ----------------------------
(***************************************************************************)
(* PyTerm (src/pyterm.py) and its Streamlit front end (src/streamlit.py).  *)
(*                                                                         *)
(* Text is kept as TLA+ strings and processed character by character       *)
(* (Len, SubSeq and \o apply to strings), so that tokenising, quoting,     *)
(* clause splitting and template matching are computed and not assumed.    *)
(***************************************************************************)
EXTENDS Integers, Sequences, FiniteSets, TLC

(***************************************************************************)
(* Characters and strings (Python str methods used by the source)          *)
(***************************************************************************)
Ch(s, i) == SubSeq(s, i, i)

UpperAlpha == "ABCDEFGHIJKLMNOPQRSTUVWXYZ"

LowerAlpha == "abcdefghijklmnopqrstuvwxyz"

Digits == "0123456789"

CharsOf(s) == { Ch(s, i) : i \in 1..Len(s) }

\* str.strip() with no argument strips whitespace
IsSpace(c) == c \in {" ", "\t", "\n", "\r"}

\* \w of the re module, for the ASCII text the model feeds it
IsWordCh(c) == c \in CharsOf(UpperAlpha) \cup CharsOf(LowerAlpha) \cup CharsOf(Digits) \cup {"_"}

LowerCh(c) ==
    IF c \in CharsOf(UpperAlpha)
    THEN Ch(LowerAlpha, CHOOSE i \in 1..26 : Ch(UpperAlpha, i) = c)
    ELSE c

\* Strings are taken apart by halves, so that the nesting of the evaluation
\* grows with the logarithm of their length.
RECURSIVE Lower(_)
\* s.lower()
Lower(s) ==
    IF Len(s) <= 1 THEN LowerCh(s)
    ELSE LET h == Len(s) \div 2 IN Lower(SubSeq(s, 1, h)) \o Lower(SubSeq(s, h + 1, Len(s)))

\* s.strip(chars): drop the leading and trailing characters that are in drop
StripBy(s, drop) ==
    LET keep == { i \in 1..Len(s) : Ch(s, i) \notin drop }
    IN  IF keep = {} THEN ""
        ELSE SubSeq(s, CHOOSE i \in keep : \A j \in keep : i <= j,
                       CHOOSE i \in keep : \A j \in keep : j <= i)

Strip(s) == StripBy(s, {" ", "\t", "\n", "\r"})

IsQuoteCh(c) == c \in {"\"", "'"}

\* s.strip('"\'') of the translator
StripQuotes(s) == StripBy(s, {"\"", "'"})

StartsWith(s, p) == Len(s) >= Len(p) /\ SubSeq(s, 1, Len(p)) = p

\* whether p occurs in s at index i
At(s, i, p) == i >= 1 /\ i + Len(p) - 1 <= Len(s) /\ SubSeq(s, i, i + Len(p) - 1) = p

\* the Python test `p in s`
Contains(s, p) == \E i \in 1..(Len(s) + 1) : At(s, i, p)

RECURSIVE JoinWith(_, _)
\* sep.join(ws)
JoinWith(ws, sep) ==
    IF ws = <<>> THEN ""
    ELSE IF Len(ws) = 1 THEN ws[1]
    ELSE ws[1] \o sep \o JoinWith(Tail(ws), sep)

RECURSIVE Replace(_, _, _)
\* s.replace(a, b) for a one-character a
Replace(s, a, b) ==
    IF s = "" THEN ""
    ELSE IF Len(s) = 1 THEN (IF s = a THEN b ELSE s)
    ELSE LET h == Len(s) \div 2
         IN  Replace(SubSeq(s, 1, h), a, b) \o Replace(SubSeq(s, h + 1, Len(s)), a, b)

(***************************************************************************)
(* shlex.split (posix mode, whitespace_split, no comments) and shlex.quote *)
(***************************************************************************)
\* The state of shlex's read loop: state is "a" outside quotes, "'" or "\""
\* inside that quote, "\\" after an escape character, with esc the state to
\* return to; tok is the token so far, quoted whether it had a quote, toks
\* the tokens emitted.  A token is emitted when it is non-empty or was quoted.
ShlexStart == [state |-> "a", esc |-> "a", tok |-> "", quoted |-> FALSE, toks |-> <<>>]

\* the emitted tokens with the current token, if there is one
ShlexEmit(x) == IF x.tok # "" \/ x.quoted THEN Append(x.toks, x.tok) ELSE x.toks

\* one character c read in state x
ShlexStep(x, c) ==
    IF x.state = "a"
    THEN IF IsSpace(c) THEN [ShlexStart EXCEPT !.toks = ShlexEmit(x)]
         ELSE IF IsQuoteCh(c) THEN [x EXCEPT !.state = c, !.quoted = TRUE]
         ELSE IF c = "\\" THEN [x EXCEPT !.state = "\\", !.esc = "a"]
         ELSE [x EXCEPT !.tok = @ \o c]
    ELSE IF x.state = "\\"
    THEN LET keep == IF IsQuoteCh(x.esc) /\ c # "\\" /\ c # x.esc THEN "\\" ELSE ""
         IN  [x EXCEPT !.state = x.esc, !.tok = @ \o keep \o c]
    ELSE \* inside a quote
         IF c = x.state THEN [x EXCEPT !.state = "a"]
         ELSE IF c = "\\" /\ x.state = "\"" THEN [x EXCEPT !.state = "\\", !.esc = x.state]
         ELSE [x EXCEPT !.tok = @ \o c]

RECURSIVE ShlexScan(_, _, _, _)
\* the state after the characters s[lo..hi] read from state x
ShlexScan(s, lo, hi, x) ==
    IF lo > hi THEN x
    ELSE IF lo = hi THEN ShlexStep(x, Ch(s, lo))
    ELSE LET Right(left) == IF left.state = "" THEN left
                            ELSE ShlexScan(s, (lo + hi) \div 2 + 1, hi, left)
         IN  Right(ShlexScan(s, lo, (lo + hi) \div 2, x))

\* shlex.split(s): ok = FALSE stands for the ValueError it raises (no closing
\* quotation, no escaped character)
ShlexEnd(x) ==
    IF x.state = "a" THEN [ok |-> TRUE, toks |-> ShlexEmit(x)] ELSE [ok |-> FALSE, toks |-> <<>>]

ShlexSplit(s) == ShlexEnd(ShlexScan(s, 1, Len(s), ShlexStart))

IsSafeCh(c) == IsWordCh(c) \/ c \in {"@", "%", "+", "=", ":", ",", ".", "/", "-"}

\* shlex.quote(s)
ShlexQuote(s) ==
    IF s = "" THEN "''"
    ELSE IF \A i \in 1..Len(s) : IsSafeCh(Ch(s, i)) THEN s
    ELSE "'" \o Replace(s, "'", "'\"'\"'") \o "'"

RECURSIVE MapQuote(_)
MapQuote(ws) == IF ws = <<>> THEN <<>> ELSE <<ShlexQuote(ws[1])>> \o MapQuote(Tail(ws))

(***************************************************************************)
(* difflib.get_close_matches, as suggest_close calls it                    *)
(***************************************************************************)
\* the characters of tokens in the order of their code points, for comparing strings
CharOrder == " '-./" \o Digits \o ":;" \o UpperAlpha \o "_" \o LowerAlpha

Ord(c) == IF c \in CharsOf(CharOrder) THEN CHOOSE i \in 1..Len(CharOrder) : Ch(CharOrder, i) = c ELSE 0

RECURSIVE StrLess(_, _)
\* Python's s < t on strings
StrLess(s, t) ==
    IF t = "" THEN FALSE
    ELSE IF s = "" THEN TRUE
    ELSE IF Ch(s, 1) = Ch(t, 1) THEN StrLess(SubSeq(s, 2, Len(s)), SubSeq(t, 2, Len(t)))
    ELSE Ord(Ch(s, 1)) < Ord(Ch(t, 1))

\* SequenceMatcher.find_longest_match on a[alo..ahi], b[blo..bhi] (1-based,
\* inclusive): the longest block, of those the one starting earliest in a,
\* of those the one starting earliest in b.  No junk: autojunk needs 200
\* elements.
FindLongestMatch(a, alo, ahi, b, blo, bhi) ==
    LET Blocks == { <<i, j, k>> \in (alo..ahi) \X (blo..bhi) \X (1..(ahi - alo + 1)) :
                        /\ i + k - 1 <= ahi
                        /\ j + k - 1 <= bhi
                        /\ SubSeq(a, i, i + k - 1) = SubSeq(b, j, j + k - 1) }
        Better(x, y) == \/ x[3] > y[3]
                        \/ x[3] = y[3] /\ x[1] < y[1]
                        \/ x[3] = y[3] /\ x[1] = y[1] /\ x[2] < y[2]
    IN  IF Blocks = {} THEN <<alo, blo, 0>>
        ELSE CHOOSE x \in Blocks : \A y \in Blocks : y = x \/ Better(x, y)

RECURSIVE MatchCount(_, _, _, _, _, _)
\* the sum of the sizes of SequenceMatcher.get_matching_blocks
MatchCount(a, alo, ahi, b, blo, bhi) ==
    IF alo > ahi \/ blo > bhi THEN 0
    ELSE LET Around(m) ==
                 IF m[3] = 0 THEN 0
                 ELSE m[3] + MatchCount(a, alo, m[1] - 1, b, blo, m[2] - 1)
                           + MatchCount(a, m[1] + m[3], ahi, b, m[2] + m[3], bhi)
         IN  Around(FindLongestMatch(a, alo, ahi, b, blo, bhi))

Min2(m, n) == IF m <= n THEN m ELSE n

Count(s, c) == Cardinality({ i \in 1..Len(s) : Ch(s, i) = c })

\* the numerator M of ratio() = 2.0*M/T, T = len(a) + len(b)
RatioMatches(a, b) == MatchCount(a, 1, Len(a), b, 1, Len(b))

RECURSIVE QuickSum(_, _, _)
QuickSum(a, b, S) ==
    IF S = {} THEN 0
    ELSE LET c == CHOOSE c \in S : TRUE
         IN  Min2(Count(a, c), Count(b, c)) + QuickSum(a, b, S \ {c})

\* the numerator of quick_ratio(): the size of the multiset intersection
QuickMatches(a, b) == QuickSum(a, b, CharsOf(a) \cap CharsOf(b))

\* 2.0*m/t >= 0.6 over the integers (difflib's calculate_ratio gives 1.0 for t = 0)
CutoffNum == 3

CutoffDen == 5

AtLeastCutoff(m, t) == IF t = 0 THEN TRUE ELSE 2 * m * CutoffDen >= CutoffNum * t

\* the candidates get_close_matches keeps: real_quick_ratio, quick_ratio and
\* ratio (of numerator m) all reach the cutoff
CloseEnough(word, cand, m) ==
    LET t == Len(cand) + Len(word) IN
    /\ AtLeastCutoff(Min2(Len(cand), Len(word)), t)
    /\ AtLeastCutoff(QuickMatches(cand, word), t)
    /\ AtLeastCutoff(m, t)

\* the order of heapq.nlargest on (ratio, candidate) pairs: x ranks above y;
\* M[c] is the numerator of the ratio of candidate c
RanksAbove(word, x, y, M) ==
    LET mx == M[x] * (Len(y) + Len(word))
        my == M[y] * (Len(x) + Len(word))
    IN  mx > my \/ (mx = my /\ StrLess(y, x))

RECURSIVE NLargest(_, _, _, _)
NLargest(n, word, S, M) ==
    IF n = 0 \/ S = {} THEN <<>>
    ELSE LET top == CHOOSE x \in S : \A y \in S : y = x \/ RanksAbove(word, x, y, M)
         IN  <<top>> \o NLargest(n - 1, word, S \ {top}, M)

SuggestN == 3

\* difflib.get_close_matches(cmd, candidates, n=3, cutoff=0.6)
GetCloseMatches(word, candidates) ==
    LET Best(M) == NLargest(SuggestN, word, { c \in candidates : CloseEnough(word, c, M[c]) }, M)
    IN  Best([c \in candidates |-> RatioMatches(c, word)])

\* suggest_close(cmd, candidates): the text of the suggestion, "" for none
suggest_close(cmd, candidates) == JoinWith(GetCloseMatches(cmd, candidates), ", ")

(***************************************************************************)
(* parse_flags                                                             *)
(***************************************************************************)
RECURSIVE ExpandShort(_, _, _, _)
\* the inner loop over the characters a[1:] of a combined short-flag token:
\* known characters add their flags until an unknown one appends the whole
\* token to the remainder and ends the loop
ExpandShort(a, i, map, fr) ==
    IF i > Len(a) THEN fr
    ELSE LET tok == "-" \o Ch(a, i) IN
         IF tok \in DOMAIN map /\ ~StartsWith(tok, "--")
         THEN ExpandShort(a, i + 1, map, [fr EXCEPT !.flags = @ \cup {map[tok]}])
         ELSE [fr EXCEPT !.rest = Append(@, a)]

RECURSIVE ParseFrom(_, _, _, _)
ParseFrom(args, i, map, fr) ==
    IF i > Len(args) THEN fr
    ELSE LET a == args[i] IN
         IF StartsWith(a, "--")
         THEN IF a \in DOMAIN map
              THEN ParseFrom(args, i + 1, map, [fr EXCEPT !.flags = @ \cup {map[a]}])
              ELSE ParseFrom(args, i + 1, map, [fr EXCEPT !.rest = Append(@, a)])
         ELSE IF StartsWith(a, "-") /\ a # "-"
         THEN ParseFrom(args, i + 1, map, ExpandShort(a, 2, map, fr))
         ELSE ParseFrom(args, i + 1, map, [fr EXCEPT !.rest = Append(@, a)])

\* parse_flags without its test a != "-": the bare dash is a short-flag token
\* with no characters, which adds nothing to either result
parse_flagsDashIsFlag(args, map) ==
    ParseFrom(SelectSeq(args, LAMBDA a : a # "-"), 1, map, [flags |-> {}, rest |-> <<>>])

\* parse_flags(args, short_long_map) -> (flags, rest)
parse_flags(args, map) == ParseFrom(args, 1, map, [flags |-> {}, rest |-> <<>>])

(***************************************************************************)
(* The regular expressions of NLTranslator.translate.                      *)
(*                                                                         *)
(* A pattern is a tuple: <<"lit", text>>, <<"alt", <<p1, ..., pn>>>>,      *)
(* <<"seq", <<p1, ..., pn>>>>, <<"opt", p>>, <<"plus", class, greedy,      *)
(* group>> (one or more characters of the class "space" or "any"; group 0  *)
(* captures nothing) and <<"eos">> for $.  A match state is the index of   *)
(* the next character and the captured groups; Rx returns every way the    *)
(* pattern matches from a state, in the order a backtracking matcher       *)
(* tries them, so the first is the match Python's re reports.              *)
(***************************************************************************)
RECURSIVE FlattenRange(_, _, _)
FlattenRange(ss, lo, hi) ==
    IF lo > hi THEN <<>>
    ELSE IF lo = hi THEN ss[lo]
    ELSE LET mid == (lo + hi) \div 2 IN FlattenRange(ss, lo, mid) \o FlattenRange(ss, mid + 1, hi)

\* the concatenation of the sequences of ss
Flatten(ss) == FlattenRange(ss, 1, Len(ss))

\* . does not match a line break
ClassHas(class, c) == IF class = "space" THEN IsSpace(c) ELSE c # "\n"

\* how many characters of the class follow from index i
RunLen(s, i, class) ==
    LET others == { j \in i..Len(s) : ~ClassHas(class, Ch(s, j)) } IN
    IF others = {} THEN Len(s) - i + 1
    ELSE (CHOOSE j \in others : \A k \in others : j <= k) - i

RECURSIVE Rx(_, _, _)
RECURSIVE RxSeq(_, _, _, _)
Rx(p, s, m) ==
    CASE p[1] = "lit" ->
            IF At(s, m.e, p[2]) THEN <<[m EXCEPT !.e = @ + Len(p[2])]>> ELSE <<>>
      [] p[1] = "alt" ->
            Flatten([k \in 1..Len(p[2]) |-> Rx(p[2][k], s, m)])
      [] p[1] = "seq" ->
            RxSeq(p[2], 1, s, <<m>>)
      [] p[1] = "opt" ->
            Rx(p[2], s, m) \o <<m>>
      [] p[1] = "plus" ->
            LET n == RunLen(s, m.e, p[2])
                Take(k) == [e |-> m.e + k,
                            g |-> IF p[4] = 0 THEN m.g
                                  ELSE [m.g EXCEPT ![p[4]] = SubSeq(s, m.e, m.e + k - 1)]]
            IN  [j \in 1..n |-> Take(IF p[3] THEN n + 1 - j ELSE j)]
      [] p[1] = "eos" ->
            IF m.e = Len(s) + 1 THEN <<m>> ELSE <<>>

RxSeq(ps, k, s, ms) ==
    IF k > Len(ps) THEN ms
    ELSE RxSeq(ps, k + 1, s, Flatten([j \in 1..Len(ms) |-> Rx(ps[k], s, ms[j])]))

NoMatch == [ok |-> FALSE, g |-> <<"", "">>]

\* the first match of the leftmost index that has one; all[i] holds the
\* matches from index i
LeftmostMatch(all) ==
    LET hits == { i \in DOMAIN all : all[i] # <<>> } IN
    IF hits = {} THEN NoMatch
    ELSE [ok |-> TRUE, g |-> all[CHOOSE i \in hits : \A j \in hits : i <= j][1].g]

\* re.search(p, s): whether it matches, and the groups of the match
ReSearch(p, s) == LeftmostMatch([i \in 1..(Len(s) + 1) |-> Rx(p, s, [e |-> i, g |-> <<"", "">>])])

\* some match of ms ends at the end of s
EndsAt(ms, s) == \E j \in 1..Len(ms) : ms[j].e = Len(s) + 1

\* re.fullmatch(p, s)
ReFullMatch(p, s) == EndsAt(Rx(p, s, [e |-> 1, g |-> <<"", "">>]), s)

Lit(t) == <<"lit", t>>

Alt(ps) == <<"alt", ps>>

Cat(ps) == <<"seq", ps>>

Opt(p) == <<"opt", p>>

\* \s+
Sp == <<"plus", "space", TRUE, 0>>

\* (.+) as group k, and the lazy (.+?)
Grp(k) == <<"plus", "any", TRUE, k>>

LazyGrp(k) == <<"plus", "any", FALSE, k>>

Eos == <<"eos">>

\* (?:create|make)\s+(?:a\s+)?(?:folder|directory|dir)\s+(.+)$
ReMkdir == Cat(<<Alt(<<Lit("create"), Lit("make")>>), Sp, Opt(Cat(<<Lit("a"), Sp>>)),
                 Alt(<<Lit("folder"), Lit("directory"), Lit("dir")>>), Sp, Grp(1), Eos>>)

\* (?:create|make|touch)\s+(?:a\s+)?(?:file\s+)?(.+)$
ReTouch == Cat(<<Alt(<<Lit("create"), Lit("make"), Lit("touch")>>), Sp, Opt(Cat(<<Lit("a"), Sp>>)),
                 Opt(Cat(<<Lit("file"), Sp>>)), Grp(1), Eos>>)

\* move\s+(.+?)\s+(?:into|to|inside)\s+(.+)$
ReMove == Cat(<<Lit("move"), Sp, LazyGrp(1), Sp, Alt(<<Lit("into"), Lit("to"), Lit("inside")>>),
                Sp, Grp(2), Eos>>)

\* copy\s+(.+?)\s+to\s+(.+)$
ReCopy == Cat(<<Lit("copy"), Sp, LazyGrp(1), Sp, Lit("to"), Sp, Grp(2), Eos>>)

\* (?:delete|remove|rm)\s+(.+)$
ReDelete == Cat(<<Alt(<<Lit("delete"), Lit("remove"), Lit("rm")>>), Sp, Grp(1), Eos>>)

\* recurs|folder|directory|dir
ReRecursive == Alt(<<Lit("recurs"), Lit("folder"), Lit("directory"), Lit("dir")>>)

\* the cd template without its "go to" alternative
ReCdWithoutGoTo == Cat(<<Alt(<<Lit("goto"), Lit("open"), Lit("enter"), Lit("cd")>>), Sp, Grp(1), Eos>>)

\* (?:go\s+to|goto|open|enter|cd)\s+(.+)$
ReCd == Cat(<<Alt(<<Cat(<<Lit("go"), Sp, Lit("to")>>), Lit("goto"), Lit("open"), Lit("enter"), Lit("cd")>>),
              Sp, Grp(1), Eos>>)

\* (?:list|show\s+files|ls), used with fullmatch
ReLsBare == Alt(<<Lit("list"), Cat(<<Lit("show"), Sp, Lit("files")>>), Lit("ls")>>)

\* (?:list|show)\s+(?:files\s+)?in\s+(.+)$
ReLsIn == Cat(<<Alt(<<Lit("list"), Lit("show")>>), Sp, Opt(Cat(<<Lit("files"), Sp>>)), Lit("in"), Sp,
                Grp(1), Eos>>)

\* (?:where\s+am\s+i|current\s+(?:dir|folder)|pwd)
RePwd == Alt(<<Cat(<<Lit("where"), Sp, Lit("am"), Sp, Lit("i")>>),
               Cat(<<Lit("current"), Sp, Alt(<<Lit("dir"), Lit("folder")>>)>>),
               Lit("pwd")>>)

(***************************************************************************)
(* NLTranslator.translate                                                  *)
(***************************************************************************)
\* the alternatives of \b(?:and then|then|and|;)\b, in the order tried
Connectors == <<"and then", "then", "and", ";">>

\* \b before index i of s: exactly one of the characters around it is a word character
WordBoundary(s, i) ==
    LET before == i > 1 /\ i - 1 <= Len(s) /\ IsWordCh(Ch(s, i - 1))
        after  == i >= 1 /\ i <= Len(s) /\ IsWordCh(Ch(s, i))
    IN  before # after

\* the length of the connector matched in t at index i (re.IGNORECASE: low is
\* t in lower case), 0 for none
ConnectorAt(t, low, i) ==
    LET hit == { k \in 1..Len(Connectors) :
                    /\ At(low, i, Connectors[k])
                    /\ WordBoundary(t, i)
                    /\ WordBoundary(t, i + Len(Connectors[k])) }
    IN  IF hit = {} THEN 0
        ELSE Len(Connectors[CHOOSE k \in hit : \A j \in hit : k <= j])

\* re.split scans from the left: x.start is where the current clause starts,
\* x.next the first index after the last match, x.out the clauses so far
SplitStep(t, x, i, n) ==
    IF n = 0 THEN x
    ELSE [start |-> i + n, next |-> i + n, out |-> Append(x.out, SubSeq(t, x.start, i - 1))]

RECURSIVE SplitScan(_, _, _, _, _)
SplitScan(t, low, lo, hi, x) ==
    IF lo > hi THEN x
    ELSE IF lo = hi THEN SplitStep(t, x, lo, IF lo < x.next THEN 0 ELSE ConnectorAt(t, low, lo))
    ELSE LET Right(left) == IF left.start = 0 THEN left
                            ELSE SplitScan(t, low, (lo + hi) \div 2 + 1, hi, left)
         IN  Right(SplitScan(t, low, lo, (lo + hi) \div 2, x))

\* re.split(r"\b(?:and then|then|and|;)\b", t, flags=re.IGNORECASE)
SplitClauses(t) ==
    LET Clauses(x) == Append(x.out, SubSeq(t, x.start, Len(t)))
    IN  Clauses(SplitScan(t, Lower(t), 1, Len(t), [start |-> 1, next |-> 1, out |-> <<>>]))

\* m.group(k).strip().strip('"\'')
Name(m, k) == StripQuotes(Strip(m.g[k]))

\* the templates that translate tries with re.search
Templates ==
    [mkdir |-> ReMkdir, touch |-> ReTouch, mv |-> ReMove, cp |-> ReCopy, rm |-> ReDelete,
     recursive |-> ReRecursive, cd |-> ReCd, ls |-> ReLsIn, pwd |-> RePwd]

\* the chain of templates for the clause s, the first that applies decides;
\* m[t] is re.search of template t in s, bare is the fullmatch of the ls
\* template, words is shlex.split of the clause.  vecs is what the clause
\* appends to the plan (nothing or one vector), ok = FALSE when shlex.split
\* raises
FirstTemplate(s, m, bare, words) ==
    LET One(v) == [ok |-> TRUE, vecs |-> <<v>>] IN
    IF m.mkdir.ok THEN One(<<"mkdir", Name(m.mkdir, 1)>>)
    ELSE IF m.touch.ok /\ ~Contains(s, "folder") /\ ~Contains(s, "directory") /\ ~Contains(s, "dir")
         THEN One(<<"touch", Name(m.touch, 1)>>)
    ELSE IF m.mv.ok THEN One(<<"mv", Name(m.mv, 1), Name(m.mv, 2)>>)
    ELSE IF m.cp.ok THEN One(<<"cp", Name(m.cp, 1), Name(m.cp, 2)>>)
    ELSE IF m.rm.ok
         THEN IF m.recursive.ok
              THEN One(<<"rm", "-r", Name(m.rm, 1)>>)
              ELSE One(<<"rm", Name(m.rm, 1)>>)
    ELSE IF m.cd.ok THEN One(<<"cd", Name(m.cd, 1)>>)
    ELSE IF bare THEN One(<<"ls">>)
    ELSE IF m.ls.ok THEN One(<<"ls", Name(m.ls, 1)>>)
    ELSE IF m.pwd.ok THEN One(<<"pwd">>)
    ELSE IF ~words.ok THEN [ok |-> FALSE, vecs |-> <<>>]
    ELSE IF words.toks # <<>> THEN One(words.toks)
    ELSE [ok |-> TRUE, vecs |-> <<>>]

\* s = raw.lower() of the stripped clause
LowerClause(raw, s) ==
    FirstTemplate(s, [t \in DOMAIN Templates |-> ReSearch(Templates[t], s)],
                  ReFullMatch(ReLsBare, s), ShlexSplit(raw))

\* one pass of the loop body for the clause raw
TranslateClause(raw) == LowerClause(Strip(raw), Lower(Strip(raw)))

RECURSIVE TranslateClauses(_, _, _)
\* the loop over the clauses: the plan so far, until a clause raises
TranslateClauses(clauses, k, plan) ==
    IF k > Len(clauses) THEN [ok |-> TRUE, plan |-> plan]
    ELSE LET Then(r) == IF ~r.ok THEN [ok |-> FALSE, plan |-> <<>>]
                        ELSE TranslateClauses(clauses, k + 1, plan \o r.vecs)
         IN  Then(TranslateClause(clauses[k]))

\* NLTranslator.translate(text): ok = FALSE stands for the ValueError that
\* shlex.split raises out of it
translate(text) ==
    LET t == Strip(text) IN
    IF t = "" THEN [ok |-> TRUE, plan |-> <<>>]
    ELSE TranslateClauses(SplitClauses(t), 1, <<>>)

(***************************************************************************)
(* The filesystem and the process.                                         *)
(*                                                                         *)
(* A path is the sequence of its component names from the root, <<>>.  fs  *)
(* maps each existing path to its node: a directory, a regular file with   *)
(* its text, or a symbolic link with the path it points to.  The process's *)
(* working directory oscwd is a path, or Gone once the directory it names  *)
(* has been removed (os.getcwd() then raises FileNotFoundError).           *)
(***************************************************************************)
DirNode == [k |-> "dir", to |-> <<>>, c |-> ""]

FileNode(text) == [k |-> "file", to |-> <<>>, c |-> text]

LinkNode(target) == [k |-> "link", to |-> target, c |-> ""]

Gone == <<"">>

\* $HOME of the process, and Path.home()
HomeDir == <<"h">>

Exists(fs, p) == p \in DOMAIN fs

IsDir(fs, p) == p \in DOMAIN fs /\ fs[p].k = "dir"

IsFile(fs, p) == p \in DOMAIN fs /\ fs[p].k = "file"

IsSymlink(fs, p) == p \in DOMAIN fs /\ fs[p].k = "link"

Parent(p) == SubSeq(p, 1, Len(p) - 1)

IsPrefix(p, q) == Len(p) <= Len(q) /\ SubSeq(q, 1, Len(p)) = p

\* str(path)
PathStr(p) == "/" \o JoinWith(p, "/")

RECURSIVE SplitOn(_, _)
\* s.split(sep) for a one-character sep
SplitOn(s, sep) ==
    LET hits == { i \in 1..Len(s) : Ch(s, i) = sep } IN
    IF hits = {} THEN <<s>>
    ELSE LET i == CHOOSE i \in hits : \A j \in hits : i <= j
         IN  <<SubSeq(s, 1, i - 1)>> \o SplitOn(SubSeq(s, i + 1, Len(s)), sep)

\* the components of a path string; pathlib drops empty and "." components
Components(s) == SelectSeq(SplitOn(s, "/"), LAMBDA n : n # "" /\ n # ".")

\* os.path.expanduser for the current user: "~" and "~/..." start at $HOME
ExpandUser(s) ==
    IF s = "~" THEN PathStr(HomeDir)
    ELSE IF StartsWith(s, "~/") THEN PathStr(HomeDir) \o SubSeq(s, 2, Len(s))
    ELSE s

RECURSIVE RealPath(_, _, _, _)
\* posixpath.realpath, not strict: ".." drops the last resolved component
\* (the root stays), a symbolic link is replaced by its target, a missing
\* component is kept
RealPath(fs, base, comps, i) ==
    IF i > Len(comps) THEN base
    ELSE IF comps[i] = ".." THEN RealPath(fs, Parent(base), comps, i + 1)
    ELSE LET newp == Append(base, comps[i]) IN
         IF IsSymlink(fs, newp) THEN RealPath(fs, fs[newp].to, comps, i + 1)
         ELSE RealPath(fs, newp, comps, i + 1)

\* safe_expand(path) = Path(expandvars(expanduser(path))).resolve(), for path
\* strings without "$": ok = FALSE stands for the FileNotFoundError of
\* os.getcwd(), which a relative path needs
safe_expand(w, path) ==
    LET Resolve(s) ==
            IF ~StartsWith(s, "/") /\ w.oscwd = Gone THEN [ok |-> FALSE, p |-> <<>>]
            ELSE [ok |-> TRUE,
                  p |-> RealPath(w.fs, IF StartsWith(s, "/") THEN <<>> ELSE w.oscwd, Components(s), 1)]
    IN  Resolve(ExpandUser(path))

\* the filesystem without the subtree at p
Without(fs, p) == [q \in { q \in DOMAIN fs : ~IsPrefix(p, q) } |-> fs[q]]

\* the effect of shutil.rmtree(p) or p.unlink() on the world: the process's
\* working directory is gone when it was inside
Removed(w, p) ==
    [w EXCEPT !.fs = Without(w.fs, p),
              !.oscwd = IF @ # Gone /\ IsPrefix(p, @) THEN Gone ELSE @]

\* the filesystem with node n at p
With(fs, p, n) == [q \in DOMAIN fs \cup {p} |-> IF q = p THEN n ELSE fs[q]]

\* os.mkdir(p): FileNotFoundError, NotADirectoryError or FileExistsError as err
OsMkdir(fs, p) ==
    IF Exists(fs, p) THEN [err |-> "FileExistsError", fs |-> fs]
    ELSE IF ~Exists(fs, Parent(p)) THEN [err |-> "FileNotFoundError", fs |-> fs]
    ELSE IF ~IsDir(fs, Parent(p)) THEN [err |-> "NotADirectoryError", fs |-> fs]
    ELSE [err |-> "", fs |-> With(fs, p, DirNode)]

RECURSIVE MakeDirs(_, _, _)
\* Path.mkdir(parents=True, exist_ok=True): the missing ancestors are made
\* from the top down, an existing directory is accepted
MakeDirs(fs, p, i) ==
    LET q == SubSeq(p, 1, i) IN  \* called with i = 0: the root exists
    IF IsDir(fs, q) THEN IF i = Len(p) THEN [err |-> "", fs |-> fs] ELSE MakeDirs(fs, p, i + 1)
    ELSE IF Exists(fs, q)
         THEN [err |-> IF i = Len(p) THEN "FileExistsError" ELSE "NotADirectoryError", fs |-> fs]
    ELSE IF i = Len(p) THEN [err |-> "", fs |-> With(fs, q, DirNode)]
    ELSE MakeDirs(With(fs, q, DirNode), p, i + 1)

(***************************************************************************)
(* The session.                                                            *)
(*                                                                         *)
(* A world w is what a handler reads and changes: the filesystem fs, the   *)
(* process's working directory oscwd, the session's cwd (PyTerm.cwd), and  *)
(* whether psutil was importable; the history file is a file of fs.  ans   *)
(* is what the user will answer to the prompts of the line being handled.  *)
(* The other                                                               *)
(* fields record what happened while the line was handled:                 *)
(*   calls    each call of dispatch: its line, its nesting depth, the two   *)
(*            working directories on entry, the handler it invoked ("" for  *)
(*            none), what the handler raised, whether an interrupt arrived  *)
(*            during the call, and the status returned (-1 when the call    *)
(*            did not return);                                              *)
(*   out      what was printed;                                             *)
(*   asked    each confirmation: the path, the answer, and confirm's result;*)
(*   intr     the number of KeyboardInterrupts raised;                      *)
(*   starved  a prompt found ans empty.                                     *)
(*                                                                         *)
(* A handler returns [w, rc, exc]: exc is "none" when it returned rc, and  *)
(* otherwise what it raised: "exit" (SystemExit), "intr"                   *)
(* (KeyboardInterrupt) or "error" (any Exception).                         *)
(***************************************************************************)
Ret(w, rc) == [w |-> w, rc |-> rc, exc |-> "none"]

Raise(w, exc) == [w |-> w, rc |-> -1, exc |-> exc]

\* print(msg)
Say(w, msg) == [w EXCEPT !.out = Append(@, msg)]

\* sys.stdout.write(text)
Write(w, text) == IF text = "" THEN w ELSE [w EXCEPT !.out = Append(@, text)]

\* what input() gives to a prompt: a line of text, EOFError or KeyboardInterrupt
TextAnswer(t) == [k |-> "line", s |-> t]

EofAnswer == [k |-> "eof", s |-> ""]

IntrAnswer == [k |-> "intr", s |-> ""]

\* confirm taking any line of text for a yes
confirmAnyText(w, p) ==
    LET Answered(a, yes) ==
            [w |-> [w EXCEPT !.ans = IF @ = <<>> THEN @ ELSE Tail(@),
                             !.starved = @ \/ w.ans = <<>>,
                             !.intr = IF a.k = "intr" THEN @ + 1 ELSE @,
                             !.asked = Append(@, [p |-> p, a |-> a, yes |-> yes])],
             yes |-> yes, exc |-> IF a.k = "intr" THEN "intr" ELSE "none"]
        Answer(a) == Answered(a, a.k = "line")
    IN  IF w.ans = <<>> THEN Answer(EofAnswer) ELSE Answer(Head(w.ans))

\* confirm(prompt) for the path p: yes reports its result, exc = "intr" that
\* input() raised KeyboardInterrupt.  With no answer left the input is at EOF.
confirm(w, p) ==
    LET Answered(a, yes) ==
            [w |-> [w EXCEPT !.ans = IF @ = <<>> THEN @ ELSE Tail(@),
                             !.starved = @ \/ w.ans = <<>>,
                             !.intr = IF a.k = "intr" THEN @ + 1 ELSE @,
                             !.asked = Append(@, [p |-> p, a |-> a, yes |-> yes])],
             yes |-> yes, exc |-> IF a.k = "intr" THEN "intr" ELSE "none"]
        Answer(a) == Answered(a, a.k = "line" /\ Lower(Strip(a.s)) \in {"y", "yes"})
    IN  IF w.ans = <<>> THEN Answer(EofAnswer) ELSE Answer(Head(w.ans))

\* the registered commands, in the order of _register_builtins
Commands == <<"help", "exit", "pwd", "cd", "ls", "mkdir", "rm", "mv", "cp", "touch", "cat",
              "clear", "which", "ai", "ps", "sysmon", "history">>

CommandNames == { Commands[i] : i \in 1..Len(Commands) }

\* alias_to_name on a POSIX host (is_windows() is false: clear has no alias)
alias_to_name == ("quit" :> "exit") @@ ("q" :> "exit") @@ ("do" :> "ai")

\* the commands _register_builtins registers, in its order; windows is
\* is_windows(), which gives clear the alias cls
Builtins(windows) ==
    LET Command(name, aliases) == [name |-> name, aliases |-> aliases] IN
    <<Command("help", <<>>), Command("exit", <<"quit", "q">>), Command("pwd", <<>>),
      Command("cd", <<>>), Command("ls", <<>>), Command("mkdir", <<>>), Command("rm", <<>>),
      Command("mv", <<>>), Command("cp", <<>>), Command("touch", <<>>), Command("cat", <<>>),
      Command("clear", IF windows THEN <<"cls">> ELSE <<>>), Command("which", <<>>),
      Command("ai", <<"do">>), Command("ps", <<>>), Command("sysmon", <<>>),
      Command("history", <<>>)>>

\* register that enters an alias as a command of its own
registerAliasAsCommand(r, cmd) ==
    [commands |-> [n \in DOMAIN r.commands \cup {cmd.name} \cup { cmd.aliases[i] : i \in DOMAIN cmd.aliases } |-> cmd],
     alias_to_name |-> [a \in DOMAIN r.alias_to_name \cup { cmd.aliases[i] : i \in DOMAIN cmd.aliases } |->
                           IF \E i \in DOMAIN cmd.aliases : cmd.aliases[i] = a THEN a
                           ELSE r.alias_to_name[a]]]

\* register(cmd) on the registry r: the two dict assignments
register(r, cmd) ==
    [commands |-> [n \in DOMAIN r.commands \cup {cmd.name} |->
                      IF n = cmd.name THEN cmd ELSE r.commands[n]],
     alias_to_name |-> [a \in DOMAIN r.alias_to_name \cup { cmd.aliases[i] : i \in DOMAIN cmd.aliases } |->
                           IF \E i \in DOMAIN cmd.aliases : cmd.aliases[i] = a THEN cmd.name
                           ELSE r.alias_to_name[a]]]

\* the registry after __init__: two empty dicts, then _register_builtins, the
\* calls of register in order
_register_builtins(windows) ==
    LET RECURSIVE RegisterFrom(_, _, _)
        RegisterFrom(r, cmds, i) ==
            IF i > Len(cmds) THEN r ELSE RegisterFrom(register(r, cmds[i]), cmds, i + 1)
    IN  RegisterFrom([commands |-> <<>>, alias_to_name |-> <<>>], Builtins(windows), 1)

\* alias resolution that also folds the case of the name
ResolveAliasFolded(name) ==
    IF Lower(name) \in DOMAIN alias_to_name THEN alias_to_name[Lower(name)] ELSE Lower(name)

\* alias resolution of dispatch and _cmd_help
ResolveAlias(name) == IF name \in DOMAIN alias_to_name THEN alias_to_name[name] ELSE name

\* the lookup `name in self.commands`
IsCommand(name) == name \in CommandNames

_cmd_help(w, args) ==
    IF args = <<>> THEN Ret(Say(w, "Available commands:"), 0)
    ELSE LET name == ResolveAlias(args[1]) IN
         IF IsCommand(name) THEN Ret(Say(w, "Usage: " \o name), 0)
         ELSE Ret(Say(w, "No such command: " \o name), 1)

_cmd_exit(w, args) == Raise(w, "exit")

_cmd_pwd(w, args) == Ret(Say(w, PathStr(w.cwd)), 0)

\* cd that takes the path without looking at it
_cmd_cdUnchecked(w, args) ==
    LET To(e) ==
            IF ~e.ok THEN Raise(w, "error")
            ELSE Ret([w EXCEPT !.cwd = e.p], 0)
    IN  IF args # <<>> THEN To(safe_expand(w, args[1])) ELSE To([ok |-> TRUE, p |-> HomeDir])

_cmd_cd(w, args) ==
    LET To(e) ==
            IF ~e.ok THEN Raise(w, "error")
            ELSE IF ~Exists(w.fs, e.p) THEN Ret(Say(w, "No such directory: " \o PathStr(e.p)), 1)
            ELSE IF ~IsDir(w.fs, e.p) THEN Ret(Say(w, "Not a directory: " \o PathStr(e.p)), 1)
            ELSE Ret([w EXCEPT !.cwd = RealPath(w.fs, <<>>, e.p, 1)], 0)
    IN  IF args # <<>> THEN To(safe_expand(w, args[1])) ELSE To([ok |-> TRUE, p |-> HomeDir])

LsFlags == ("-a" :> "-a") @@ ("--all" :> "-a") @@ ("-l" :> "-l") @@ ("--long" :> "-l")
           @@ ("-h" :> "-h") @@ ("--human" :> "-h") @@ ("-1" :> "-1") @@ ("--one" :> "-1")

\* the sort key (not p.is_dir(), p.name.lower()) of the listing
ListsBefore(fs, p, q) ==
    LET pd == IsDir(fs, p)
        qd == IsDir(fs, q)
        pn == Lower(p[Len(p)])
        qn == Lower(q[Len(q)])
    IN  (pd /\ ~qd) \/ (pd = qd /\ StrLess(pn, qn))

RECURSIVE Listing(_, _)
\* the names of the entries S in the order of the listing; entries whose keys
\* are equal keep the order of iterdir(), which is any order
Listing(fs, S) ==
    IF S = {} THEN <<>>
    ELSE LET p == CHOOSE p \in S : \A q \in S : ~ListsBefore(fs, q, p)
         IN  <<p[Len(p)]>> \o Listing(fs, S \ {p})

_cmd_ls(w, args) ==
    LET List(flags, e) ==
            IF ~e.ok THEN Raise(w, "error")
            ELSE IF ~Exists(w.fs, e.p)
                 THEN Ret(Say(w, "No such file or directory: " \o PathStr(e.p)), 1)
            ELSE IF IsFile(w.fs, e.p) THEN Ret(Say(w, e.p[Len(e.p)]), 0)
            ELSE Ret([w EXCEPT !.out = @ \o Listing(w.fs,
                        { q \in DOMAIN w.fs : /\ Len(q) = Len(e.p) + 1 /\ IsPrefix(e.p, q)
                                              /\ ("-a" \in flags \/ ~StartsWith(q[Len(q)], ".")) })], 0)
        Of(fr) == IF fr.rest # <<>> THEN List(fr.flags, safe_expand(w, fr.rest[1]))
                  ELSE List(fr.flags, [ok |-> TRUE, p |-> w.cwd])
    IN  Of(parse_flags(args, LsFlags))

MkdirFlags == ("-p" :> "-p") @@ ("--parents" :> "-p")

RECURSIVE MkdirLoop(_, _, _, _, _)
\* the loop over the paths rest[i..], code the status so far
MkdirLoop(w, flags, rest, i, code) ==
    IF i > Len(rest) THEN Ret(w, code)
    ELSE LET Made(p, r) ==
                 IF r.err = "" THEN MkdirLoop([w EXCEPT !.fs = r.fs], flags, rest, i + 1, code)
                 ELSE IF r.err = "FileExistsError"
                      THEN MkdirLoop(Say(w, "mkdir: " \o PathStr(p) \o ": already exists"),
                                     flags, rest, i + 1, 1)
                 ELSE MkdirLoop(Say(w, "mkdir: " \o PathStr(p) \o ": " \o r.err), flags, rest, i + 1, 1)
             Make(e) ==
                 IF ~e.ok THEN Raise(w, "error")
                 ELSE Made(e.p, IF "-p" \in flags THEN MakeDirs(w.fs, e.p, 0) ELSE OsMkdir(w.fs, e.p))
         IN  Make(safe_expand(w, rest[i]))

\* mkdir that never makes the parents
_cmd_mkdirWithoutParents(w, args) ==
    LET Of(fr) == IF fr.rest = <<>> THEN Ret(Say(w, "Usage: mkdir [-p] path ..."), 2)
                  ELSE MkdirLoop(w, {}, fr.rest, 1, 0)
    IN  Of(parse_flags(args, MkdirFlags))

_cmd_mkdir(w, args) ==
    LET Of(fr) == IF fr.rest = <<>> THEN Ret(Say(w, "Usage: mkdir [-p] path ..."), 2)
                  ELSE MkdirLoop(w, fr.flags, fr.rest, 1, 0)
    IN  Of(parse_flags(args, MkdirFlags))

RmFlags == ("-r" :> "-r") @@ ("--recursive" :> "-r") @@ ("-f" :> "-f") @@ ("--force" :> "-f")

\* rmtree that removes the directory's own entry and leaves what it held
RmDeleteKeepsSubtree(w, p) ==
    [err |-> "", w |-> [w EXCEPT !.fs = [q \in DOMAIN w.fs \ {p} |-> w.fs[q]]]]

\* shutil.rmtree(p) or p.unlink(), inside the try of _cmd_rm: the root itself
\* cannot be removed, which rmtree finds after it has emptied it
RmDelete(w, p) ==
    IF p = <<>>
    THEN [err |-> "OSError", w |-> [w EXCEPT !.fs = [q \in {<<>>} |-> DirNode],
                                             !.oscwd = IF @ = <<>> THEN @ ELSE Gone]]
    ELSE [err |-> "", w |-> Removed(w, p)]

RECURSIVE RmLoop(_, _, _, _, _)
\* the loop over the targets rest[i..], code the status so far
RmLoop(w, flags, rest, i, code) ==
    IF i > Len(rest) THEN Ret(w, code)
    ELSE LET \* shutil.rmtree(p) or p.unlink(), and what the except clauses make of it
             Deleted(p, d) ==
                 IF d.err = "" THEN RmLoop(d.w, flags, rest, i + 1, code)
                 ELSE RmLoop(Say(d.w, "rm: " \o PathStr(p) \o ": " \o d.err), flags, rest, i + 1, 1)
             \* the prompt has been answered
             Asked(p, c) ==
                 IF c.exc = "intr" THEN Raise(c.w, "intr")
                 ELSE IF ~c.yes THEN RmLoop(c.w, flags, rest, i + 1, code)
                 ELSE Deleted(p, RmDelete(c.w, p))
             Target(e) ==
                 IF ~e.ok THEN Raise(w, "error")
                 ELSE IF ~Exists(w.fs, e.p) /\ "-f" \in flags THEN RmLoop(w, flags, rest, i + 1, code)
                 ELSE IF ~Exists(w.fs, e.p)
                      THEN RmLoop(Say(w, "rm: " \o PathStr(e.p) \o ": no such file or directory"),
                                  flags, rest, i + 1, 1)
                 ELSE IF IsDir(w.fs, e.p) /\ ~IsSymlink(w.fs, e.p) /\ "-r" \notin flags
                      THEN RmLoop(Say(w, "rm: " \o PathStr(e.p) \o ": is a directory (use -r)"),
                                  flags, rest, i + 1, 1)
                 ELSE IF "-f" \notin flags THEN Asked(e.p, confirm(w, e.p))
                 ELSE Deleted(e.p, RmDelete(w, e.p))
         IN  Target(safe_expand(w, rest[i]))

\* rm that takes every call for a forced one
_cmd_rmAlwaysForced(w, args) ==
    LET Of(fr) == IF fr.rest = <<>> THEN Ret(Say(w, "Usage: rm [-r] [-f] target ..."), 2)
                  ELSE RmLoop(w, fr.flags \cup {"-f"}, fr.rest, 1, 0)
    IN  Of(parse_flags(args, RmFlags))

_cmd_rm(w, args) ==
    LET Of(fr) == IF fr.rest = <<>> THEN Ret(Say(w, "Usage: rm [-r] [-f] target ..."), 2)
                  ELSE RmLoop(w, fr.flags, fr.rest, 1, 0)
    IN  Of(parse_flags(args, RmFlags))

\* the subtree of fs at src, placed at dst
Placed(fs, src, dst) ==
    [q \in { dst \o SubSeq(r, Len(src) + 1, Len(r)) : r \in { r \in DOMAIN fs : IsPrefix(src, r) } }
        |-> fs[src \o SubSeq(q, Len(dst) + 1, Len(q))]]

\* os.rename(src, dst) done: the subtree is at dst, and with it the process's
\* working directory when it was inside
Renamed(w, src, dst) ==
    [w EXCEPT !.fs = Placed(w.fs, src, dst) @@ Without(Without(w.fs, src), dst),
              !.oscwd = IF @ # Gone /\ IsPrefix(src, @)
                        THEN dst \o SubSeq(@, Len(src) + 1, Len(@)) ELSE @]

\* shutil.copytree(src, dst) of the directory src: the entries of src are
\* listed, then os.makedirs(dst), then the listed entries are copied, so a
\* destination inside src is not copied into itself
CopyTree(w, src, dst) ==
    LET Copy(r) ==
            IF r.err # "" THEN [err |-> r.err, w |-> w]
            ELSE [err |-> "", w |-> [w EXCEPT !.fs = Placed(w.fs, src, dst) @@ r.fs]]
    IN  IF Exists(w.fs, dst) THEN [err |-> "FileExistsError", w |-> w]
        ELSE Copy(MakeDirs(w.fs, Parent(dst), 0))

\* shutil.copy2(src, dst) of a path src that is not a directory
Copy2(w, src, dst) ==
    LET Into(real) ==
            IF ~Exists(w.fs, src) THEN [err |-> "FileNotFoundError", w |-> w]
            ELSE IF src = real THEN [err |-> "SameFileError", w |-> w]
            ELSE IF IsDir(w.fs, real) THEN [err |-> "IsADirectoryError", w |-> w]
            ELSE IF ~Exists(w.fs, Parent(real)) THEN [err |-> "FileNotFoundError", w |-> w]
            ELSE IF ~IsDir(w.fs, Parent(real)) THEN [err |-> "NotADirectoryError", w |-> w]
            ELSE [err |-> "", w |-> [w EXCEPT !.fs = With(w.fs, real, FileNode(w.fs[src].c))]]
    IN  IF IsDir(w.fs, dst) /\ src # <<>> THEN Into(Append(dst, src[Len(src)])) ELSE Into(dst)

\* shutil.move(src, dst): into dst when dst is a directory; os.rename, and
\* when that fails a copy followed by the removal of src
ShutilMove(w, src, dst) ==
    LET \* copytree(src, real) and rmtree(src)
        Tree(c) == IF c.err # "" THEN c ELSE [err |-> "", w |-> Removed(c.w, src)]
        \* copy2(src, real) and os.unlink(src)
        File(c) == IF c.err # "" THEN c ELSE [err |-> "", w |-> Removed(c.w, src)]
        Rename(real) ==
            IF src = real /\ Exists(w.fs, src) THEN [err |-> "", w |-> w]
            ELSE IF /\ Exists(w.fs, src)
                    /\ ~IsPrefix(src, real)
                    /\ IsDir(w.fs, Parent(real))
                    /\ (Exists(w.fs, real) => IsFile(w.fs, src) /\ IsFile(w.fs, real))
                 THEN [err |-> "", w |-> Renamed(w, src, real)]
            ELSE IF IsDir(w.fs, src)
                 THEN IF IsPrefix(src, dst) THEN [err |-> "Error", w |-> w]
                      ELSE Tree(CopyTree(w, src, real))
            ELSE File(Copy2(w, src, real))
    IN  IF src = <<>> THEN [err |-> "OSError", w |-> w]
        ELSE IF IsDir(w.fs, dst) /\ src # dst
             THEN IF Exists(w.fs, Append(dst, src[Len(src)])) THEN [err |-> "Error", w |-> w]
                  ELSE Rename(Append(dst, src[Len(src)]))
        ELSE Rename(dst)

RECURSIVE MvLoop(_, _, _, _)
\* the loop over the sources srcs[i..] that go into the directory dest
MvLoop(w, srcs, dest, i) ==
    IF i > Len(srcs) THEN Ret(w, 0)
    ELSE LET Moved(m) == IF m.err # "" THEN Ret(Say(m.w, "mv: " \o m.err), 1)
                         ELSE MvLoop(m.w, srcs, dest, i + 1)
             Move(e) == IF ~e.ok THEN Ret(Say(w, "mv: FileNotFoundError"), 1)
                        ELSE Moved(ShutilMove(w, e.p, dest))
         IN  Move(safe_expand(w, srcs[i]))

\* mv without the test of the destination of several sources
_cmd_mvUnchecked(w, args) ==
    LET To(dest_path) ==
            IF ~dest_path.ok THEN Raise(w, "error")
            ELSE MvLoop(w, SubSeq(args, 1, Len(args) - 1), dest_path.p, 1)
    IN  IF Len(args) < 2 THEN Ret(Say(w, "Usage: mv src ... dest"), 2)
        ELSE To(safe_expand(w, args[Len(args)]))

_cmd_mv(w, args) ==
    LET To(dest_path) ==
            IF ~dest_path.ok THEN Raise(w, "error")
            ELSE IF Len(args) > 2 /\ ~IsDir(w.fs, dest_path.p)
                 THEN Ret(Say(w, "mv: when moving multiple files, destination must be an existing directory"), 1)
            ELSE MvLoop(w, SubSeq(args, 1, Len(args) - 1), dest_path.p, 1)
    IN  IF Len(args) < 2 THEN Ret(Say(w, "Usage: mv src ... dest"), 2)
        ELSE To(safe_expand(w, args[Len(args)]))

CpFlags == ("-r" :> "-r") @@ ("--recursive" :> "-r")

RECURSIVE CpLoop(_, _, _, _, _)
\* the loop over the sources srcs[i..] that are copied into the directory dest
CpLoop(w, flags, srcs, dest, i) ==
    IF i > Len(srcs) THEN Ret(w, 0)
    ELSE LET Copied(c) == IF c.err # "" THEN Ret(Say(c.w, "cp: " \o c.err), 1)
                          ELSE CpLoop(c.w, flags, srcs, dest, i + 1)
             Copy(e) ==
                 IF ~e.ok THEN Ret(Say(w, "cp: FileNotFoundError"), 1)
                 ELSE IF IsDir(w.fs, e.p) /\ "-r" \notin flags
                      THEN CpLoop(Say(w, "cp: -r not specified; omitting directory '" \o PathStr(e.p) \o "'"),
                                  flags, srcs, dest, i + 1)
                 ELSE IF e.p = <<>> THEN Copied(CopyTree(w, e.p, dest))
                 ELSE IF IsDir(w.fs, e.p) THEN Copied(CopyTree(w, e.p, Append(dest, e.p[Len(e.p)])))
                 ELSE Copied(Copy2(w, e.p, Append(dest, e.p[Len(e.p)])))
         IN  Copy(safe_expand(w, srcs[i]))

\* cp of one source sp to dest
CpOne(w, flags, e, dest) ==
    LET Copied(c) == IF c.err # "" THEN Ret(Say(c.w, "cp: " \o c.err), 1) ELSE Ret(c.w, 0) IN
    IF ~e.ok THEN Ret(Say(w, "cp: FileNotFoundError"), 1)
    ELSE IF IsDir(w.fs, e.p) /\ "-r" \notin flags
         THEN Ret(Say(w, "cp: -r not specified; omitting directory '" \o PathStr(e.p) \o "'"), 1)
    ELSE IF IsDir(w.fs, e.p) THEN Copied(CopyTree(w, e.p, dest))
    ELSE IF IsDir(w.fs, dest) /\ e.p # <<>> THEN Copied(Copy2(w, e.p, Append(dest, e.p[Len(e.p)])))
    ELSE Copied(Copy2(w, e.p, dest))

\* cp that takes every call for a recursive one
_cmd_cpAlwaysRecursive(w, args) ==
    LET To(fr, dest_path) ==
            IF ~dest_path.ok THEN Raise(w, "error")
            ELSE IF Len(fr.rest) > 2
                 THEN IF ~IsDir(w.fs, dest_path.p)
                      THEN Ret(Say(w, "cp: when copying multiple files, destination must be an existing directory"), 1)
                      ELSE CpLoop(w, {"-r"}, SubSeq(fr.rest, 1, Len(fr.rest) - 1), dest_path.p, 1)
            ELSE CpOne(w, {"-r"}, safe_expand(w, fr.rest[1]), dest_path.p)
        Of(fr) == IF Len(fr.rest) < 2 THEN Ret(Say(w, "Usage: cp [-r] src ... dest"), 2)
                  ELSE To(fr, safe_expand(w, fr.rest[Len(fr.rest)]))
    IN  Of(parse_flags(args, CpFlags))

_cmd_cp(w, args) ==
    LET To(fr, dest_path) ==
            IF ~dest_path.ok THEN Raise(w, "error")
            ELSE IF Len(fr.rest) > 2
                 THEN IF ~IsDir(w.fs, dest_path.p)
                      THEN Ret(Say(w, "cp: when copying multiple files, destination must be an existing directory"), 1)
                      ELSE CpLoop(w, fr.flags, SubSeq(fr.rest, 1, Len(fr.rest) - 1), dest_path.p, 1)
            ELSE CpOne(w, fr.flags, safe_expand(w, fr.rest[1]), dest_path.p)
        Of(fr) == IF Len(fr.rest) < 2 THEN Ret(Say(w, "Usage: cp [-r] src ... dest"), 2)
                  ELSE To(fr, safe_expand(w, fr.rest[Len(fr.rest)]))
    IN  Of(parse_flags(args, CpFlags))

RECURSIVE TouchLoop(_, _, _, _)
\* the loop over the paths args[i..]: p.parent.mkdir(parents=True,
\* exist_ok=True), then p.touch(exist_ok=True)
TouchLoop(w, args, i, code) ==
    IF i > Len(args) THEN Ret(w, code)
    ELSE LET Touched(p, r) ==
                 IF r.err # ""
                 THEN TouchLoop(Say(w, "touch: " \o PathStr(p) \o ": " \o r.err), args, i + 1, 1)
                 ELSE IF Exists(r.fs, p) THEN TouchLoop([w EXCEPT !.fs = r.fs], args, i + 1, code)
                 ELSE TouchLoop([w EXCEPT !.fs = With(r.fs, p, FileNode(""))], args, i + 1, code)
             Touch(e) ==
                 IF ~e.ok THEN Raise(w, "error")
                 ELSE IF e.p = <<>> THEN TouchLoop(w, args, i + 1, code)
                 ELSE Touched(e.p, MakeDirs(w.fs, Parent(e.p), 0))
         IN  Touch(safe_expand(w, args[i]))

_cmd_touch(w, args) ==
    IF args = <<>> THEN Ret(Say(w, "Usage: touch file ..."), 2)
    ELSE TouchLoop(w, args, 1, 0)

RECURSIVE CatLoop(_, _, _, _)
\* the loop over the paths args[i..]
CatLoop(w, args, i, code) ==
    IF i > Len(args) THEN Ret(w, code)
    ELSE LET Show(e) ==
                 IF ~e.ok THEN Raise(w, "error")
                 ELSE IF IsFile(w.fs, e.p) THEN CatLoop(Write(w, w.fs[e.p].c), args, i + 1, code)
                 ELSE CatLoop(Say(w, "cat: " \o PathStr(e.p) \o ": "
                                  \o (IF Exists(w.fs, e.p) THEN "IsADirectoryError" ELSE "FileNotFoundError")),
                              args, i + 1, 1)
         IN  Show(safe_expand(w, args[i]))

_cmd_cat(w, args) ==
    IF args = <<>> THEN Ret(Say(w, "Usage: cat file ..."), 2)
    ELSE CatLoop(w, args, 1, 0)

_cmd_clear(w, args) == Ret(w, 0)

\* the commands shutil.which finds on the host's PATH
OnPath == {"sh"}

_cmd_which(w, args) ==
    IF args = <<>> THEN Ret(Say(w, "Usage: which command"), 2)
    ELSE IF args[1] \in OnPath THEN Ret(Say(w, "/bin/" \o args[1]), 0)
    ELSE Ret(Say(w, args[1] \o " not found in PATH"), 1)

\* the process table is the host's: the listing is printed, by psutil or by ps
_cmd_ps(w, args) == Ret(Say(w, "PID CPU% MEM% NAME"), 0)

SysmonFlags == ("-w" :> "-w") @@ ("--watch" :> "-w")

\* without -w the statistics are printed once; with -w they are printed until
\* the user interrupts, and the handler catches that KeyboardInterrupt itself
_cmd_sysmon(w, args) ==
    LET Of(fr) == IF ~w.psutil THEN Ret(Say(w, "sysmon: psutil not installed."), 1)
                  ELSE IF "-w" \notin fr.flags THEN Ret(Say(w, "System Monitor"), 0)
                  ELSE Ret([Say(w, "System Monitor") EXCEPT !.intr = @ + 1], 0)
    IN  Of(parse_flags(args, SysmonFlags))

\* int(s) of a decimal numeral; ok = FALSE stands for its ValueError
RECURSIVE DecValue(_, _)
DecValue(s, acc) ==
    IF s = "" THEN acc
    ELSE DecValue(SubSeq(s, 2, Len(s)), 10 * acc + (CHOOSE d \in 0..9 : Ch(Digits, d + 1) = Ch(s, 1)))

ParseInt(s) ==
    LET t == Strip(s)
        neg == StartsWith(t, "-")
        body == IF neg \/ StartsWith(t, "+") THEN SubSeq(t, 2, Len(t)) ELSE t
    IN  IF body = "" \/ \E i \in 1..Len(body) : Ch(body, i) \notin CharsOf(Digits)
        THEN [ok |-> FALSE, n |-> 0]
        ELSE [ok |-> TRUE, n |-> IF neg THEN 0 - DecValue(body, 0) ELSE DecValue(body, 0)]

HistoryDefault == 50

\* self.history_path: Path.home() / ".pyterm_history"
history_path == Append(HomeDir, ".pyterm_history")

\* [ln.rstrip("\n") for ln in f]: the lines of a text
ReadLines(text) ==
    IF text = "" THEN <<>>
    ELSE IF Ch(text, Len(text)) = "\n" THEN SplitOn(SubSeq(text, 1, Len(text) - 1), "\n")
    ELSE SplitOn(text, "\n")

\* a history append that opens the file anew and so keeps the last line only
AppendHistoryTruncates(fs, line) == With(fs, history_path, FileNode(line \o "\n"))

\* the manual history append of run: the parent is made if need be and the
\* line is written at the end of the file, which is created when it is not
\* there; any exception is passed over, and the file then is as it was
AppendHistory(fs, line) ==
    LET Open(made) ==
            IF made.err # "" THEN fs
            ELSE IF IsFile(made.fs, history_path)
                 THEN With(made.fs, history_path, FileNode(made.fs[history_path].c \o line \o "\n"))
            ELSE IF Exists(made.fs, history_path) THEN made.fs
            ELSE With(made.fs, history_path, FileNode(line \o "\n"))
    IN  Open(MakeDirs(fs, HomeDir, 0))

_cmd_history(w, args) ==
    LET v == IF args # <<>> THEN ParseInt(args[1]) ELSE [ok |-> FALSE, n |-> 0]
        n == IF v.ok THEN (IF v.n > 1 THEN v.n ELSE 1) ELSE HistoryDefault
        Show(lines) ==
            LET start == IF Len(lines) > n THEN Len(lines) - n ELSE 0
                RECURSIVE Dec(_)
                Dec(k) == IF k < 10 THEN Ch(Digits, k + 1)
                          ELSE Dec(k \div 10) \o Ch(Digits, (k % 10) + 1)
                \* f"{i+1:>5}  {lines[i]}"
                Numbered(i) ==
                    (IF Len(Dec(i)) < 5 THEN SubSeq("     ", 1, 5 - Len(Dec(i))) ELSE "")
                        \o Dec(i) \o "  " \o lines[i]
            IN  Ret([w EXCEPT !.out = @ \o [i \in 1..(Len(lines) - start) |-> Numbered(start + i)]], 0)
    IN  IF ~Exists(w.fs, history_path) THEN Show(<<>>)
        ELSE IF IsFile(w.fs, history_path) THEN Show(ReadLines(w.fs[history_path].c))
        ELSE Ret(Say(w, "history: IsADirectoryError"), 1)

(***************************************************************************)
(* dispatch and the ai command, which calls it for each vector of a plan   *)
(***************************************************************************)
\* the message of an unknown command, with the suggestion when there is one
UnknownMessage(name) ==
    LET Message(suggestion) ==
            "Unknown command: " \o name
                \o (IF suggestion # "" THEN " (did you mean: " \o suggestion \o "?)" ELSE "")
    IN  Message(suggest_close(name, CommandNames))

\* dispatch without its last except clause: an Exception leaves it
HandledReraisesErrors(r) ==
    CASE r.exc = "intr"  -> Ret(Say(r.w, "Interrupted."), 130)
      [] OTHER           -> r

\* what dispatch makes of what the handler returned or raised
Handled(r) ==
    CASE r.exc = "intr"  -> Ret(Say(r.w, "Interrupted."), 130)
      [] r.exc = "exit"  -> r
      [] r.exc = "error" -> Ret(Say(r.w, "Error"), 1)
      [] OTHER           -> r

\* a line for the vector that gives its last word twice
VectorLineRepeatsLast(p) == JoinWith(MapQuote(Append(p, p[Len(p)])), " ")

\* the line that _cmd_ai dispatches for the vector p
VectorLine(p) == JoinWith(MapQuote(p), " ")

\* the loop of _cmd_ai without its break
PlanNeverStops(rc) == FALSE

\* the loop of _cmd_ai stops at the first status that is not 0
PlanStops(rc) == rc # 0

RECURSIVE dispatch(_, _, _)
RECURSIVE PlanLoop(_, _, _, _, _)
RECURSIVE _cmd_ai(_, _, _)

Handler(name, w, args, depth) ==
    CASE name = "help"    -> _cmd_help(w, args)
      [] name = "exit"    -> _cmd_exit(w, args)
      [] name = "pwd"     -> _cmd_pwd(w, args)
      [] name = "cd"      -> _cmd_cd(w, args)
      [] name = "ls"      -> _cmd_ls(w, args)
      [] name = "mkdir"   -> _cmd_mkdir(w, args)
      [] name = "rm"      -> _cmd_rm(w, args)
      [] name = "mv"      -> _cmd_mv(w, args)
      [] name = "cp"      -> _cmd_cp(w, args)
      [] name = "touch"   -> _cmd_touch(w, args)
      [] name = "cat"     -> _cmd_cat(w, args)
      [] name = "clear"   -> _cmd_clear(w, args)
      [] name = "which"   -> _cmd_which(w, args)
      [] name = "ai"      -> _cmd_ai(w, args, depth)
      [] name = "ps"      -> _cmd_ps(w, args)
      [] name = "sysmon"  -> _cmd_sysmon(w, args)
      [] name = "history" -> _cmd_history(w, args)

\* the for loop of _cmd_ai over plan[k..], rc the status of the last vector
PlanLoop(w, plan, k, rc, depth) ==
    IF k > Len(plan) THEN Ret(w, rc)
    ELSE LET Then(r) == IF r.exc # "none" THEN r
                        ELSE IF PlanStops(r.rc) THEN Ret(r.w, r.rc)
                        ELSE PlanLoop(r.w, plan, k + 1, r.rc, depth)
         IN  Then(dispatch(w, VectorLine(plan[k]), depth + 1))

_cmd_ai(w, args, depth) ==
    LET Run(t) ==
            IF ~t.ok THEN Raise(w, "error")
            ELSE IF t.plan = <<>> THEN Ret(Say(w, "Could not parse instruction."), 1)
            ELSE PlanLoop(Say(w, "Plan: " \o JoinWith([k \in 1..Len(t.plan) |-> VectorLine(t.plan[k])], " ; ")),
                          t.plan, 1, 0, depth)
    IN  IF args = <<>> THEN Ret(Say(w, "Usage: ai \"instruction sentence...\""), 2)
        ELSE Run(translate(JoinWith(args, " ")))

\* the world with the call of dispatch entered in calls as number n
Entered(w, line, depth) ==
    [w EXCEPT !.calls = Append(@, [line |-> line, depth |-> depth, oscwd |-> w.oscwd, cwd |-> w.cwd,
                                   handler |-> "", raised |-> "none", intr |-> FALSE, rc |-> -1])]

\* call n invokes the handler of the command name
Invoked(w, n, name) == [w EXCEPT !.calls[n].handler = name]

\* what the handler of call n raised
Threw(n, r) == IF r.exc = "none" THEN r ELSE [r EXCEPT !.w.calls[n].raised = r.exc]

\* call n, entered after `before` interrupts, returns or raises r
Returned(n, before, r) ==
    [r EXCEPT !.w.calls[n].rc = IF r.exc = "none" THEN r.rc ELSE -1,
              !.w.calls[n].intr = r.w.intr # before]

\* dispatch that takes a line it cannot split for an unknown command
DispatchedParseErrorAsUnknown(w, n, line, parts, depth) ==
    LET Found(name) ==
            IF ~IsCommand(name) THEN Ret(Say(w, UnknownMessage(name)), 127)
            ELSE Handled(Threw(n, Handler(name, Invoked(w, n, name), Tail(parts.toks), depth)))
    IN  IF line = "" THEN Ret(w, 0)
        ELSE IF ~parts.ok THEN Ret(Say(w, "Parse error"), 127)
        ELSE Found(ResolveAlias(parts.toks[1]))

\* dispatch once the line has been split: parts is shlex.split(line)
Dispatched(w, n, line, parts, depth) ==
    LET Found(name) ==
            IF ~IsCommand(name) THEN Ret(Say(w, UnknownMessage(name)), 127)
            ELSE Handled(Threw(n, Handler(name, Invoked(w, n, name), Tail(parts.toks), depth)))
    IN  IF line = "" THEN Ret(w, 0)
        ELSE IF ~parts.ok THEN Ret(Say(w, "Parse error"), 2)
        ELSE Found(ResolveAlias(parts.toks[1]))

\* dispatch(line), called at nesting depth `depth` (0 from a front end)
dispatch(w, line, depth) ==
    Returned(Len(w.calls) + 1, w.intr,
             Dispatched(Entered(w, line, depth), Len(w.calls) + 1, Strip(line),
                        ShlexSplit(Strip(line)), depth))

(***************************************************************************)
(* The state: a PyTerm session and the front end that drives it            *)
(***************************************************************************)
VARIABLES
    fs,               \* the filesystem
    oscwd,            \* the working directory of the process
    cwd,              \* PyTerm.cwd
    lines_read,       \* the lines PyTerm.run has read, in order
    psutil,           \* whether psutil was importable
    mode,             \* the front end: "run" (PyTerm.run) or "web" (StreamlitPyTerm)
    pc,               \* "read": the front end takes another line; "eof", "exited": run
                      \* has ended; "crashed": run was left by an uncaught exception
    terminal_output,  \* the web front end's entries: command and return code
    last,             \* what the handling of the last submitted line did
    tr,               \* the translator on its own: a sentence and its plan
    pf,               \* parse_flags on its own: its arguments and what it returned
    reg               \* the registry: PyTerm.commands and PyTerm.alias_to_name

vars == <<fs, oscwd, cwd, lines_read, psutil, mode, pc, terminal_output, last, tr, pf, reg>>

\* how many lines a session submits
MaxLines == 2

\* how many answers the user gives to the prompts of one line, before EOF
MaxPrompts == 2

Answers == {TextAnswer("y"), TextAnswer(" YES "), TextAnswer(""), TextAnswer("n"),
            TextAnswer("yess"), EofAnswer, IntrAnswer}

\* the filesystems a session starts from
InitTrees ==
    { (<<>> :> DirNode) @@ (<<"h">> :> DirNode),
      (<<>> :> DirNode) @@ (<<"h">> :> DirNode) @@ (<<"h", "d">> :> DirNode)
          @@ (<<"h", "d", "f">> :> FileNode("x")) @@ (<<"h", "somefile">> :> FileNode("")) }

\* the lines a front end submits
Lines ==
    { "", "  ", "ls 'x", "lx", "LS", "mkdr d", "exit", "q",
      "pwd", "cd d", "cd", "cd somefile", "ls", "ls d/f",
      "mkdir demo", "touch n",
      "rm somefile", "rm -r d", "rm -rf ../d", "rm -r d/f d",
      "sysmon -w", "history", "rm -f ~/.pyterm_history",
      "ai \"create a folder demo and then go to demo\"",
      "ai 'go to d then rm f'",
      "ai \"'rm' -rf ../d then ls x\"",
      "do \"lx then pwd\"",
      "ai 'sysmon -w then pwd'",
      "ai ' and '",
      "ai 'pwd and quit'",
      "ai ai ai lx",
      "ai \"ai 'ai \\\"ai lx\\\"'\"" }

World(f, o, c) ==
    [fs |-> f, oscwd |-> o, cwd |-> c, psutil |-> psutil, ans |-> <<>>,
     starved |-> FALSE, calls |-> <<>>, out |-> <<>>, asked |-> <<>>, intr |-> 0]

RECURSIVE Outcomes(_, _, _)
\* every way dispatch(line) can go from the world w0, over the answers the
\* user gives: an answer is drawn only for a prompt that is reached, and
\* after MaxPrompts answers the input is at EOF
Outcomes(w0, line, ans) ==
    LET Of(r) == IF r.w.starved /\ Len(ans) < MaxPrompts
                 THEN UNION { Outcomes(w0, line, Append(ans, a)) : a \in Answers }
                 ELSE {r}
    IN  Of(dispatch([w0 EXCEPT !.ans = ans], line, 0))

\* the record of a handled line: front is the front end that called dispatch,
\* fs0 and cwd0 the filesystem and the session's cwd before the call, next
\* where the front end goes from the call
Report(front, line, w0, r, rc, next) ==
    [front |-> front, line |-> line, rc |-> rc, exc |-> r.exc, next |-> next, calls |-> r.w.calls,
     out |-> r.w.out, asked |-> r.w.asked, intr |-> r.w.intr, fs0 |-> w0.fs, cwd0 |-> w0.cwd]

NoReport ==
    [front |-> "", line |-> "", rc |-> 0, exc |-> "none", next |-> "read", calls |-> <<>>, out |-> <<>>,
     asked |-> <<>>, intr |-> 0, fs0 |-> <<>>, cwd0 |-> <<>>]

NoTranslation == [left |-> "", sep |-> "", right |-> "", done |-> FALSE, ok |-> TRUE, plan |-> <<>>]

NoFlags == [args |-> <<>>, map |-> <<>>, done |-> FALSE, flags |-> {}, rest |-> <<>>]

Init ==
    /\ fs \in InitTrees
    /\ cwd \in { p \in DOMAIN fs : fs[p].k = "dir" /\ p # <<>> }
    /\ oscwd = cwd
    /\ lines_read = <<>>
    /\ psutil \in BOOLEAN
    /\ mode \in {"run", "web"}
    /\ pc = "read"
    /\ terminal_output = <<>>
    /\ last = NoReport
    /\ tr = NoTranslation
    /\ pf = NoFlags
    /\ reg = _register_builtins(FALSE)

\* one iteration of the loop of PyTerm.run that reads `line`: os.chdir(cwd),
\* the append to the history file, dispatch(line); SystemExit leaves run
RunLine(line) ==
    /\ mode = "run" /\ pc = "read"
    /\ Len(lines_read) < MaxLines
    /\ IsDir(fs, cwd)
    /\ LET w0 == World(AppendHistory(fs, line), cwd, cwd) IN
       \E r \in Outcomes(w0, line, <<>>) :
          /\ fs' = r.w.fs
          /\ oscwd' = r.w.oscwd
          /\ cwd' = r.w.cwd
          /\ lines_read' = Append(lines_read, line)
          /\ pc' = IF r.exc = "exit" THEN "exited" ELSE "read"
          /\ last' = Report("run", line, w0, r, r.rc, IF r.exc = "exit" THEN "exited" ELSE "read")
    /\ UNCHANGED <<psutil, mode, terminal_output, tr, pf, reg>>

\* os.chdir(self.cwd) raises (the directory is gone): neither handler of the
\* loop's try catches it
RunChdirFails ==
    /\ mode = "run" /\ pc = "read"
    /\ ~IsDir(fs, cwd)
    /\ pc' = "crashed"
    /\ UNCHANGED <<fs, oscwd, cwd, lines_read, psutil, mode, terminal_output, last, tr, pf, reg>>

\* input() raises EOFError: break
RunEOF ==
    /\ mode = "run" /\ pc = "read"
    /\ IsDir(fs, cwd)
    /\ oscwd' = cwd
    /\ pc' = "eof"
    /\ UNCHANGED <<fs, cwd, lines_read, psutil, mode, terminal_output, last, tr, pf, reg>>

\* input() raises KeyboardInterrupt: continue
RunInterrupt ==
    /\ mode = "run" /\ pc = "read"
    /\ IsDir(fs, cwd)
    /\ oscwd' = cwd
    /\ UNCHANGED <<fs, cwd, lines_read, psutil, mode, pc, terminal_output, last, tr, pf, reg>>

\* StreamlitPyTerm.execute_command(line): capture_command_output calls
\* dispatch and turns SystemExit into return code 0
Capture(line) ==
    /\ mode = "web" /\ pc = "read"
    /\ Len(terminal_output) < MaxLines
    /\ Strip(line) # ""
    /\ LET w0 == World(fs, oscwd, cwd)
           command == Strip(line)
       IN  \E r \in Outcomes(w0, command, <<>>) :
              LET rc == IF r.exc = "exit" THEN 0 ELSE r.rc IN
              /\ fs' = r.w.fs
              /\ oscwd' = r.w.oscwd
              /\ cwd' = r.w.cwd
              /\ terminal_output' = Append(terminal_output, [command |-> command, return_code |-> rc])
              /\ last' = Report("web", command, w0, r, rc, "read")
    /\ UNCHANGED <<lines_read, psutil, mode, pc, tr, pf, reg>>

Next ==
    \/ \E line \in Lines : RunLine(line)
    \/ RunChdirFails
    \/ RunEOF
    \/ RunInterrupt
    \/ \E line \in Lines : Capture(line)

Spec == Init /\ [][Next]_vars

(***************************************************************************)
(* The file commands: a session in a home directory that holds files,      *)
(* directories and symbolic links to both, given lines of rm, mkdir, touch, *)
(* cat, mv and cp                                                           *)
(***************************************************************************)
FileTrees ==
    { (<<>> :> DirNode) @@ (<<"h">> :> DirNode) @@ (<<"h", "d">> :> DirNode)
          @@ (<<"h", "d", "f">> :> FileNode("x")) @@ (<<"h", "e">> :> DirNode)
          @@ (<<"h", "somefile">> :> FileNode(""))
          @@ (<<"h", "lf">> :> LinkNode(<<"h", "somefile">>))
          @@ (<<"h", "ld">> :> LinkNode(<<"h", "d">>)) }

FileLines ==
    { "rm d", "rm -f d", "rm -r d", "rm -rf d", "rm -rf ../d",
      "rm lf", "rm -f lf", "rm -r ld", "rm -rf ld",
      "rm missing.txt", "rm -f missing.txt", "rm missing.txt somefile",
      "mkdir a/b/c", "mkdir -p a/b/c", "mkdir -p d", "mkdir -p somefile", "mkdir a/b n",
      "touch somefile/x n", "cat missing.txt d/f",
      "mv", "mv somefile", "mv somefile n", "mv somefile d/f e", "mv somefile d/f missing",
      "mv somefile d/f lf", "mv missing.txt somefile e",
      "cp missing.txt somefile e", "cp somefile d/f e",
      "cp d n", "cp -r d n", "cp d somefile e" }

InitFiles ==
    /\ fs \in FileTrees
    /\ cwd \in {<<"h">>, <<"h", "d">>}
    /\ oscwd = cwd
    /\ lines_read = <<>>
    /\ psutil = FALSE
    /\ mode \in {"run", "web"}
    /\ pc = "read"
    /\ terminal_output = <<>>
    /\ last = NoReport
    /\ tr = NoTranslation
    /\ pf = NoFlags
    /\ reg = _register_builtins(FALSE)

NextFiles ==
    \/ \E line \in FileLines : RunLine(line)
    \/ RunChdirFails
    \/ RunEOF
    \/ RunInterrupt
    \/ \E line \in FileLines : Capture(line)

SpecFiles == InitFiles /\ [][NextFiles]_vars

(***************************************************************************)
(* The registry: a session constructed on either kind of host             *)
(***************************************************************************)
InitRegistry ==
    /\ fs \in InitTrees
    /\ cwd \in { p \in DOMAIN fs : fs[p].k = "dir" /\ p # <<>> }
    /\ oscwd = cwd
    /\ lines_read = <<>>
    /\ psutil = TRUE
    /\ mode \in {"run", "web"}
    /\ pc = "read"
    /\ terminal_output = <<>>
    /\ last = NoReport
    /\ tr = NoTranslation
    /\ pf = NoFlags
    /\ reg \in { _register_builtins(windows) : windows \in BOOLEAN }

SpecRegistry == InitRegistry /\ [][Next]_vars

(***************************************************************************)
(* The translator on its own: a sentence made of two clauses and what is   *)
(* between them, and the plan translate returns for it                     *)
(***************************************************************************)
Clauses == {"ls", "pwd", "list", "go to d", "mkdir x", "create a folder demo", "delete f"}

Between == {" then ", " and then ", " and ", " THEN ", " And Then ", ";", " ; ", "; ", " ;"}

InitTranslate ==
    /\ tr \in [left : Clauses, sep : Between, right : Clauses, done : {FALSE}, ok : {TRUE},
               plan : {<<>>}]
    /\ fs = (<<>> :> DirNode) @@ (HomeDir :> DirNode)
    /\ cwd = HomeDir
    /\ oscwd = HomeDir
    /\ lines_read = <<>>
    /\ psutil = FALSE
    /\ mode = "translate"
    /\ pc = "read"
    /\ terminal_output = <<>>
    /\ last = NoReport
    /\ pf = NoFlags
    /\ reg = _register_builtins(FALSE)

\* NLTranslator.translate(sentence)
Translate ==
    /\ mode = "translate"
    /\ ~tr.done
    /\ LET Plan(t) == [tr EXCEPT !.done = TRUE, !.ok = t.ok, !.plan = t.plan]
       IN  tr' = Plan(translate(tr.left \o tr.sep \o tr.right))
    /\ UNCHANGED <<fs, oscwd, cwd, lines_read, psutil, mode, pc, terminal_output, last, pf, reg>>

NextTranslate == Translate

SpecTranslate == InitTranslate /\ [][NextTranslate]_vars

(***************************************************************************)
(* The translator on sentences of one clause: deletions with and without   *)
(* the words that ask for recursion, and text that matches no template     *)
(***************************************************************************)
DeleteVerbs == {"delete", "remove", "rm"}

DeleteTargets == {"build", "x.txt"}

CuesBefore == {"", "the folder "}

CuesAfter == {"", " directory", " folder", " recursively", " directory recursively"}

DeleteSentences ==
    { v \o " " \o b \o t \o a : v \in DeleteVerbs, b \in CuesBefore, t \in DeleteTargets, a \in CuesAfter }

OtherSentences ==
    { "", "   ", "frobnicate", "echo hi", "git status ", "echo 'a b'", "say \"hi\" twice",
      "it's", "say \"hi", "pwd then it's", "'" }

Sentences == DeleteSentences \cup OtherSentences

InitSentence ==
    /\ tr \in [left : Sentences, sep : {""}, right : {""}, done : {FALSE}, ok : {TRUE}, plan : {<<>>}]
    /\ fs = (<<>> :> DirNode) @@ (HomeDir :> DirNode)
    /\ cwd = HomeDir
    /\ oscwd = HomeDir
    /\ lines_read = <<>>
    /\ psutil = FALSE
    /\ mode = "translate"
    /\ pc = "read"
    /\ terminal_output = <<>>
    /\ last = NoReport
    /\ pf = NoFlags
    /\ reg = _register_builtins(FALSE)

SpecSentence == InitSentence /\ [][NextTranslate]_vars

(***************************************************************************)
(* parse_flags on its own: argument lists over a few tokens, parsed with   *)
(* the flag specs of ls and of rm                                          *)
(***************************************************************************)
FlagTokens == {"-l", "-lah", "-lx", "-rf", "-", "--all", "--bogus", "f", "g"}

\* how many arguments a list has at most
MaxArgs == 3

ArgLists == UNION { [1..n -> FlagTokens] : n \in 0..MaxArgs }

FlagSpecs == {LsFlags, RmFlags}

InitFlags ==
    /\ pf \in [args : ArgLists, map : FlagSpecs, done : {FALSE}, flags : {{}}, rest : {<<>>}]
    /\ reg = _register_builtins(FALSE)
    /\ fs = (<<>> :> DirNode) @@ (HomeDir :> DirNode)
    /\ cwd = HomeDir
    /\ oscwd = HomeDir
    /\ lines_read = <<>>
    /\ psutil = FALSE
    /\ mode = "flags"
    /\ pc = "read"
    /\ terminal_output = <<>>
    /\ last = NoReport
    /\ tr = NoTranslation

\* parse_flags(args, short_long_map)
ParseFlags ==
    /\ mode = "flags"
    /\ ~pf.done
    /\ LET Parsed(r) == [pf EXCEPT !.done = TRUE, !.flags = r.flags, !.rest = r.rest]
       IN  pf' = Parsed(parse_flags(pf.args, pf.map))
    /\ UNCHANGED <<fs, oscwd, cwd, lines_read, psutil, mode, pc, terminal_output, last, tr, reg>>

NextFlags == ParseFlags

SpecFlags == InitFlags /\ [][NextFlags]_vars

(***************************************************************************)
(* Properties.  They are stated over `last`, the record of the line handled *)
(* last, and over the state the line left behind.                          *)
(***************************************************************************)
\* the first word of a line as dispatch splits it, <<>> when it has none
FirstWords(line) ==
    LET Of(parts) == IF parts.ok /\ parts.toks # <<>> THEN <<parts.toks[1]>> ELSE <<>>
    IN  Of(ShlexSplit(Strip(line)))

\* the words after the first
ArgsOf(line) ==
    LET Of(parts) == IF parts.ok /\ parts.toks # <<>> THEN Tail(parts.toks) ELSE <<>>
    IN  Of(ShlexSplit(Strip(line)))

\* the line names a command: some spelling in Names is its first word
Names(line, names) == FirstWords(line) # <<>> /\ FirstWords(line)[1] \in names

\* the line's first word is neither a registered command nor an alias
Unknown(line) ==
    FirstWords(line) # <<>> /\ FirstWords(line)[1] \notin CommandNames \cup DOMAIN alias_to_name

\* the answer is y or yes, in any case, with whitespace around it
AnsweredYes(a) == a.k = "line" /\ Lower(Strip(a.s)) \in {"y", "yes"}

\* the paths that the last line removed
Deleted == DOMAIN last.fs0 \ DOMAIN fs

\* the calls of dispatch that the handler of the last line made itself
Vectors == SelectSeq(last.calls, LAMBDA c : c.depth = 1)

\* C1: when a handler raises an error that is neither an exit request nor an
\* interrupt, dispatch returns 1 and nothing propagates; exit, quit and q
\* raise SystemExit, which leaves every dispatch on the way, nested ones
\* included, and reaches the front end.
C1_ErrorReturnsOneExitPropagates ==
    \A i \in DOMAIN last.calls :
        LET c == last.calls[i] IN
        /\ c.raised = "error" => c.rc = 1 /\ last.exc # "error"
        /\ Names(c.line, {"exit", "quit", "q"}) => c.raised = "exit"
        /\ c.raised = "exit" => c.rc = -1 /\ last.calls[1].rc = -1 /\ last.exc = "exit"

\* C1: in the interactive loop a vector of a plan raised an error, the
\* dispatch of that vector returned 1, and the loop reads on
C1_Witness ==
    /\ last.front = "run" /\ pc = "read"
    /\ \E i \in DOMAIN last.calls :
          /\ last.calls[i].depth = 1
          /\ last.calls[i].raised = "error"
          /\ last.calls[i].rc = 1

\* C2 as stated: a target whose confirmation was not answered y or yes is
\* still there after rm, unless force was given or a confirmation for that
\* same target was answered y or yes
C2_DeclinedTargetStays ==
    Names(last.line, {"rm"}) /\ "-f" \notin parse_flags(ArgsOf(last.line), RmFlags).flags =>
        \A i \in DOMAIN last.asked :
            last.asked[i].p \in Deleted =>
                \E j \in DOMAIN last.asked :
                    last.asked[j].p = last.asked[i].p /\ AnsweredYes(last.asked[j].a)

\* C2, amended: rm removes a path only when force was given or a confirmation
\* for that path, or for a directory target that holds it, was answered y or
\* yes; and an rm that printed no complaint returns 0, however many of its
\* targets were declined.
C2_DeletedWasForcedOrConfirmed ==
    Names(last.line, {"rm"}) =>
        /\ \/ "-f" \in parse_flags(ArgsOf(last.line), RmFlags).flags
           \/ \A p \in Deleted :
                 \E j \in DOMAIN last.asked :
                    AnsweredYes(last.asked[j].a) /\ IsPrefix(last.asked[j].p, p)
        /\ last.exc = "none" /\ last.out = <<>> => last.rc = 0

\* C2: rm asked about an existing file, the answer was not a yes, the file
\* is still there and the status is 0
C2_Witness ==
    /\ last.line = "rm somefile"
    /\ Len(last.asked) = 1
    /\ last.asked[1].a = TextAnswer("n")
    /\ last.asked[1].p \in DOMAIN fs
    /\ last.rc = 0

\* C3 as stated: every call of dispatch starts with the process's working
\* directory equal to the session's cwd
C3_ProcessCwdIsSessionCwd ==
    \A i \in DOMAIN last.calls : last.calls[i].oscwd = last.calls[i].cwd

\* C4 as stated: the interactive loop ends only by an exit request or by
\* end of input
C4_LoopEndsOnlyByExitOrEof ==
    /\ pc \in {"read", "eof", "exited"}
    /\ pc = "exited" => last.exc = "exit"

\* C5: a line whose first word is neither a command nor an alias, compared
\* exactly (LS is not ls), makes dispatch return 127 without invoking a
\* handler; the session's cwd and the filesystem stay as they were.
C5_UnknownCommandIs127 ==
    /\ \A i \in DOMAIN last.calls :
          Unknown(last.calls[i].line) => last.calls[i].rc = 127 /\ last.calls[i].handler = ""
    /\ Unknown(last.line) =>
          /\ last.rc = 127
          /\ Len(last.calls) = 1
          /\ fs = last.fs0
          /\ cwd = last.cwd0

\* C5: LS was submitted where ls is registered, and the status was 127
C5_Witness ==
    /\ last.line = "LS"
    /\ last.rc = 127
    /\ last.calls[1].handler = ""
    /\ IsCommand("ls")

\* C6 as stated: lx returns 127 with a message that suggests ls
C6_LxSuggestsLs ==
    last.line = "lx" =>
        /\ last.rc = 127
        /\ \E k \in DOMAIN last.out :
              Contains(last.out[k], "did you mean") /\ Contains(last.out[k], "ls")

\* C7 as stated: a call of dispatch during which an interrupt arrived
\* returns 130
C7_EveryInterruptReturns130 ==
    \A i \in DOMAIN last.calls : last.calls[i].intr => last.calls[i].rc = 130

\* C7, what holds of the code: a KeyboardInterrupt that a handler lets out
\* makes dispatch return 130 and goes no further, while the watch loop of
\* sysmon catches it itself and returns 0.  An interrupt at a confirmation of
\* rm leaves the target in place, the line returns 130 and the front end
\* reads on.
C7_InterruptReturns130UnlessCaught ==
    /\ last.exc # "intr"
    /\ \A i \in DOMAIN last.calls :
          LET c == last.calls[i] IN
          /\ c.raised = "intr" => c.rc = 130
          /\ c.intr /\ c.handler # "ai" => IF c.handler = "sysmon" THEN c.rc = 0 ELSE c.rc = 130
    /\ \A j \in DOMAIN last.asked :
          last.asked[j].a = IntrAnswer =>
              /\ j = Len(last.asked)
              /\ last.asked[j].p \in DOMAIN fs
              /\ last.rc = 130
              /\ last.exc = "none"
              /\ last.next = "read"

\* C7: in the interactive loop rm was interrupted at its confirmation, the
\* status was 130, the file is still there and the loop reads on
C7_Witness ==
    /\ last.front = "run" /\ last.next = "read" /\ pc = "read"
    /\ last.line = "rm somefile"
    /\ Len(last.asked) = 1
    /\ last.asked[1].a = IntrAnswer
    /\ last.asked[1].p \in DOMAIN fs
    /\ last.rc = 130

\* C8: ai dispatches the vectors of its plan in their order and stops after
\* the first that returns a status other than 0, which it returns; when all
\* return 0 it returns 0; an empty plan dispatches nothing and returns 1.
C8_PlanRunsInOrderUntilNonzero ==
    (last.calls # <<>> /\ Names(last.line, {"ai", "do"}) /\ ArgsOf(last.line) # <<>>) =>
        LET t == translate(JoinWith(ArgsOf(last.line), " "))
            n == Len(Vectors)
        IN  t.ok =>
            /\ n <= Len(t.plan)
            /\ \A k \in 1..n : Vectors[k].line = VectorLine(t.plan[k])
            /\ \A k \in 1..(n - 1) : Vectors[k].rc = 0
            /\ last.exc = "none" =>
                  /\ t.plan = <<>> => last.rc = 1
                  /\ t.plan # <<>> =>
                        /\ n >= 1
                        /\ last.rc = Vectors[n].rc
                        /\ n < Len(t.plan) => Vectors[n].rc # 0

\* C8: a plan of two vectors whose first returned 127: the second was not
\* dispatched and ai returned 127
C8_Witness ==
    /\ last.line = "do \"lx then pwd\""
    /\ Len(translate("lx then pwd").plan) = 2
    /\ Len(Vectors) = 1
    /\ Vectors[1].rc = 127
    /\ last.rc = 127

\* C9: "create a folder demo and then go to demo" translates to mkdir demo,
\* cd demo; run through ai where the process has a working directory that
\* holds no demo, it returns 0, the directory exists and is the session's cwd.
C9_CreateThenEnter ==
    last.line = "ai \"create a folder demo and then go to demo\"" =>
        /\ translate("create a folder demo and then go to demo")
              = [ok |-> TRUE, plan |-> <<<<"mkdir", "demo">>, <<"cd", "demo">>>>]
        /\ (/\ last.calls[1].oscwd # Gone
            /\ Append(last.calls[1].oscwd, "demo") \notin DOMAIN last.fs0) =>
              /\ [k \in DOMAIN Vectors |-> Vectors[k].line] = <<"mkdir demo", "cd demo">>
              /\ last.rc = 0
              /\ IsDir(fs, Append(last.calls[1].oscwd, "demo"))
              /\ cwd = Append(last.calls[1].oscwd, "demo")

\* C9: the sentence was run through ai in /h, which now holds the directory
\* demo, the session's cwd
C9_Witness ==
    /\ last.line = "ai \"create a folder demo and then go to demo\""
    /\ last.rc = 0
    /\ <<"h", "demo">> \notin DOMAIN last.fs0
    /\ IsDir(fs, <<"h", "demo">>)
    /\ cwd = <<"h", "demo">>

\* C10 as stated: a sentence is split at every then, and then, and, and
\* semicolon between two clauses, so its plan is the plan of the first clause
\* followed by the plan of the second
C10_SplitsAtEveryConnector ==
    tr.done => tr.ok /\ tr.plan = translate(tr.left).plan \o translate(tr.right).plan

\* C11 as stated: translate raises for no sentence, and the sentence that is
\* empty or all whitespace gives the empty plan
C11_TranslateNeverRaises ==
    tr.done =>
        /\ tr.ok
        /\ Strip(tr.left) = "" => tr.plan = <<>>

\* C12 as stated: a delete clause with a cue word for recursion ("the folder"
\* before the name; "directory", "folder", "recursively" after it) becomes
\* rm -r of the name alone
C12_CueWordsLeaveTheTarget ==
    tr.done =>
        \A v \in DeleteVerbs, b \in CuesBefore, t \in DeleteTargets, a \in CuesAfter :
            (tr.left = v \o " " \o b \o t \o a /\ (b # "" \/ a # "")) =>
                tr.plan = <<<<"rm", "-r", t>>>>

\* a token that parse_flags does not read as a flag token: one that does not
\* start with a dash, or the bare dash
NonFlag(a) == ~StartsWith(a, "-") \/ a = "-"

\* the characters after the dash of a short-flag token that the spec knows
KnownChars(a, map) == { i \in 2..Len(a) : ("-" \o Ch(a, i)) \in DOMAIN map }

\* C13: the flags parse_flags returns are canonical values of the spec; the
\* remainder is made of tokens of the argument list and holds its non-flag
\* tokens (those not starting with a dash, and the bare dash) in their order,
\* each once: no flag takes the token after it.
C13_FlagsCanonicalRestInOrder ==
    pf.done =>
        /\ pf.flags \subseteq { pf.map[k] : k \in DOMAIN pf.map }
        /\ \A k \in DOMAIN pf.rest : \E i \in DOMAIN pf.args : pf.rest[k] = pf.args[i]
        /\ SelectSeq(pf.rest, NonFlag) = SelectSeq(pf.args, NonFlag)

\* C13: a known flag was followed by a name and by the bare dash, and both
\* are the remainder
C13_Witness ==
    /\ pf.done
    /\ pf.args = <<"-l", "f", "-">>
    /\ pf.map = LsFlags
    /\ pf.flags = {"-l"}
    /\ pf.rest = <<"f", "-">>

\* C14 as stated: a combined short-flag token whose characters are all known
\* gives all their flags and nothing to the remainder; one with an unknown
\* character gives no flag and the whole token to the remainder
C14_UnknownCharacterGivesNoFlag ==
    (pf.done /\ Len(pf.args) = 1 /\ StartsWith(pf.args[1], "-")
       /\ ~StartsWith(pf.args[1], "--") /\ pf.args[1] # "-") =>
        LET a == pf.args[1] IN
        IF KnownChars(a, pf.map) = 2..Len(a)
        THEN pf.flags = { pf.map["-" \o Ch(a, i)] : i \in 2..Len(a) } /\ pf.rest = <<>>
        ELSE pf.flags = {} /\ pf.rest = <<a>>

\* what safe_expand made of the argument a when the last line was dispatched
Resolved(a) == safe_expand([fs |-> last.fs0, oscwd |-> last.calls[1].oscwd], a)

\* the path the argument a names, its symbolic links not followed
Lexical(a) ==
    IF StartsWith(a, "/") THEN Components(a) ELSE last.calls[1].oscwd \o Components(a)

\* the flags and the targets of the last line, an rm
RmArgs == parse_flags(ArgsOf(last.line), RmFlags)

\* the flags and the paths of the last line, a mkdir
MkdirArgs == parse_flags(ArgsOf(last.line), MkdirFlags)

\* the last line was run with force, or its first confirmation was answered
\* y or yes
ForcedOrConfirmed ==
    "-f" \in RmArgs.flags \/ (last.asked # <<>> /\ AnsweredYes(last.asked[1].a))

\* some line of the output has the text
Printed(text) == \E k \in DOMAIN last.out : Contains(last.out[k], text)

\* C15: rm of one target that is an existing directory: without -r it says
\* so, returns 1 and removes nothing, with or without -f; with -r and either
\* -f or a confirmation answered y or yes, nothing at or below the directory
\* exists afterwards.
C15_DirectoryNeedsRecursive ==
    (Names(last.line, {"rm"}) /\ Len(RmArgs.rest) = 1) =>
        LET Of(e) ==
                (e.ok /\ IsDir(last.fs0, e.p)) =>
                    /\ "-r" \notin RmArgs.flags =>
                          last.rc = 1 /\ fs = last.fs0 /\ Printed("is a directory")
                    /\ ("-r" \in RmArgs.flags /\ ForcedOrConfirmed) =>
                          \A q \in DOMAIN fs : ~IsPrefix(e.p, q)
        IN  Of(Resolved(RmArgs.rest[1]))

\* C15: rm -r d was confirmed where d held a file: d and the file are gone;
\* the rest is as it was
C15_Witness ==
    /\ last.line = "rm -r d"
    /\ Len(last.asked) = 1 /\ AnsweredYes(last.asked[1].a)
    /\ <<"h", "d", "f">> \in DOMAIN last.fs0
    /\ fs = Without(last.fs0, <<"h", "d">>)
    /\ last.rc = 0

\* C16 as stated: rm of one target that is a symbolic link, forced or
\* confirmed, with or without -r, removes the link and nothing else
C16_OnlyTheLinkIsRemoved ==
    (Names(last.line, {"rm"}) /\ Len(RmArgs.rest) = 1 /\ last.calls[1].oscwd # Gone) =>
        LET Of(l) == (IsSymlink(last.fs0, l) /\ ForcedOrConfirmed) => fs = Without(last.fs0, l)
        IN  Of(Lexical(RmArgs.rest[1]))

\* C17: rm of one absent target changes nothing in the filesystem; with -f
\* it prints nothing and returns 0, without it reports no such file and
\* returns 1.
C17_AbsentTarget ==
    (Names(last.line, {"rm"}) /\ Len(RmArgs.rest) = 1) =>
        LET Of(e) ==
                (e.ok /\ ~Exists(last.fs0, e.p)) =>
                    /\ fs = last.fs0
                    /\ IF "-f" \in RmArgs.flags
                       THEN last.rc = 0 /\ last.out = <<>>
                       ELSE last.rc = 1 /\ Printed("no such file")
        IN  Of(Resolved(RmArgs.rest[1]))

\* C17: rm missing.txt where there is no such file returned 1 and left the
\* filesystem alone
C17_Witness ==
    /\ last.line = "rm missing.txt"
    /\ <<"h", "missing.txt">> \notin DOMAIN last.fs0
    /\ last.calls[1].oscwd = <<"h">>
    /\ last.rc = 1
    /\ fs = last.fs0

\* C18 as stated, for its last part: mkdir -p of one path that exists returns
\* 0, prints nothing and changes nothing, whatever is at the path
C18_ExistingLeafTolerated ==
    (Names(last.line, {"mkdir"}) /\ Len(MkdirArgs.rest) = 1 /\ "-p" \in MkdirArgs.flags) =>
        LET Of(e) == (e.ok /\ Exists(last.fs0, e.p)) =>
                         last.rc = 0 /\ fs = last.fs0 /\ last.out = <<>>
        IN  Of(Resolved(MkdirArgs.rest[1]))

\* C18, what holds of the code: mkdir of one path: without -p and with the
\* parent missing it returns 1 and makes nothing; with -p, where neither the
\* path nor an ancestor is a file, it returns 0, the path and its ancestors are
\* directories and nothing else has changed; with -p on a directory that
\* exists nothing changes and nothing is printed; with -p on a file that
\* exists it says already exists, returns 1 and changes nothing.
C18_MkdirParents ==
    (Names(last.line, {"mkdir"}) /\ Len(MkdirArgs.rest) = 1) =>
        LET Of(e) ==
                e.ok =>
                    /\ ("-p" \notin MkdirArgs.flags /\ ~Exists(last.fs0, Parent(e.p))) =>
                          last.rc = 1 /\ fs = last.fs0
                    /\ ("-p" \in MkdirArgs.flags
                          /\ \A i \in 0..Len(e.p) : Exists(last.fs0, SubSeq(e.p, 1, i))
                                                       => IsDir(last.fs0, SubSeq(e.p, 1, i))) =>
                          /\ last.rc = 0
                          /\ \A i \in 0..Len(e.p) : IsDir(fs, SubSeq(e.p, 1, i))
                          /\ \A q \in DOMAIN last.fs0 : q \in DOMAIN fs /\ fs[q] = last.fs0[q]
                          /\ \A q \in DOMAIN fs : q \in DOMAIN last.fs0 \/ IsPrefix(q, e.p)
                          /\ IsDir(last.fs0, e.p) => fs = last.fs0 /\ last.out = <<>>
                    /\ ("-p" \in MkdirArgs.flags /\ IsFile(last.fs0, e.p)) =>
                          last.rc = 1 /\ fs = last.fs0 /\ Printed("already exists")
        IN  Of(Resolved(MkdirArgs.rest[1]))

\* C18: mkdir -p a/b/c made the three directories where none was
C18_Witness ==
    /\ last.line = "mkdir -p a/b/c"
    /\ <<"h", "a">> \notin DOMAIN last.fs0
    /\ IsDir(fs, <<"h", "a">>) /\ IsDir(fs, <<"h", "a", "b">>) /\ IsDir(fs, <<"h", "a", "b", "c">>)
    /\ last.rc = 0

\* the last component of a path
Basename(p) == p[Len(p)]

\* C19 as stated, for a line that gives a batch verb two targets (and, to mv
\* and cp, a directory to put them in) of which the first must fail and the
\* second can be done: the status is not 0 and the second has been done
C19_FailureDoesNotAbortTheBatch ==
    LET args == ArgsOf(last.line)
        Both(a, b) ==
            (a.ok /\ b.ok) =>
                /\ (Names(last.line, {"mkdir"}) /\ ~Exists(last.fs0, Parent(a.p))
                      /\ ~Exists(last.fs0, b.p) /\ IsDir(last.fs0, Parent(b.p))) =>
                      last.rc # 0 /\ IsDir(fs, b.p)
                /\ (Names(last.line, {"rm"}) /\ ~Exists(last.fs0, a.p) /\ IsFile(last.fs0, b.p)
                      /\ last.asked # <<>> /\ AnsweredYes(last.asked[1].a)) =>
                      last.rc # 0 /\ ~Exists(fs, b.p)
                /\ (Names(last.line, {"touch"}) /\ IsFile(last.fs0, Parent(a.p))
                      /\ ~Exists(last.fs0, b.p) /\ IsDir(last.fs0, Parent(b.p))) =>
                      last.rc # 0 /\ IsFile(fs, b.p)
                /\ (Names(last.line, {"cat"}) /\ ~Exists(last.fs0, a.p) /\ IsFile(last.fs0, b.p)) =>
                      last.rc # 0 /\ Printed(last.fs0[b.p].c)
        Into(a, b, d) ==
            (a.ok /\ b.ok /\ d.ok /\ ~Exists(last.fs0, a.p) /\ IsFile(last.fs0, b.p)
               /\ IsDir(last.fs0, d.p) /\ ~Exists(last.fs0, Append(d.p, Basename(b.p)))) =>
                /\ Names(last.line, {"mv"}) =>
                      last.rc # 0 /\ IsFile(fs, Append(d.p, Basename(b.p))) /\ ~Exists(fs, b.p)
                /\ Names(last.line, {"cp"}) =>
                      last.rc # 0 /\ IsFile(fs, Append(d.p, Basename(b.p))) /\ IsFile(fs, b.p)
    IN  /\ (Names(last.line, {"mkdir", "rm", "touch", "cat"}) /\ Len(args) = 2) =>
              Both(Resolved(args[1]), Resolved(args[2]))
        /\ (Names(last.line, {"mv", "cp"}) /\ Len(args) = 3) =>
              Into(Resolved(args[1]), Resolved(args[2]), Resolved(args[3]))

\* C20: mv given fewer than two arguments returns 2, and mv given several
\* sources and a destination that is not an existing directory returns 1; in
\* both cases the filesystem is as it was, so that several sources are moved
\* only into an existing directory.
C20_SeveralSourcesNeedADirectory ==
    Names(last.line, {"mv"}) =>
        LET args == ArgsOf(last.line)
            Of(d) == (d.ok /\ ~IsDir(last.fs0, d.p)) => last.rc = 1 /\ fs = last.fs0
        IN  /\ Len(args) < 2 => last.rc = 2 /\ fs = last.fs0
            /\ Len(args) > 2 => Of(Resolved(args[Len(args)]))

\* C20: two files were to be moved to a name that does not exist: status 1,
\* both files where they were
C20_Witness ==
    /\ last.line = "mv somefile d/f missing"
    /\ last.calls[1].oscwd = <<"h">>
    /\ IsFile(last.fs0, <<"h", "somefile">>) /\ IsFile(last.fs0, <<"h", "d", "f">>)
    /\ last.rc = 1
    /\ fs = last.fs0

\* the flags and the paths of the last line, a cp
CpArgs == parse_flags(ArgsOf(last.line), CpFlags)

\* C21: cp without -r: of one source that is a directory it warns, returns 1
\* and changes nothing; of a directory and a file into an existing directory
\* it warns, copies the file into the directory and nothing else, so that
\* nothing of the directory source is copied.
C21_DirectoryNeedsRecursive ==
    (Names(last.line, {"cp"}) /\ "-r" \notin CpArgs.flags) =>
        LET rest == CpArgs.rest
            One(a, d) ==
                (a.ok /\ d.ok /\ IsDir(last.fs0, a.p)) =>
                    last.rc = 1 /\ fs = last.fs0 /\ Printed("omitting directory")
            Two(a, b, d) ==
                (a.ok /\ b.ok /\ d.ok /\ IsDir(last.fs0, a.p) /\ IsFile(last.fs0, b.p)
                   /\ IsDir(last.fs0, d.p) /\ ~Exists(last.fs0, Append(d.p, Basename(b.p)))) =>
                    /\ Printed("omitting directory")
                    /\ fs = With(last.fs0, Append(d.p, Basename(b.p)), last.fs0[b.p])
        IN  /\ Len(rest) = 2 => One(Resolved(rest[1]), Resolved(rest[2]))
            /\ Len(rest) = 3 => Two(Resolved(rest[1]), Resolved(rest[2]), Resolved(rest[3]))

\* C21: cp d somefile e without -r put somefile in e and nothing of d
C21_Witness ==
    /\ last.line = "cp d somefile e"
    /\ last.calls[1].oscwd = <<"h">>
    /\ IsDir(last.fs0, <<"h", "d">>) /\ IsFile(last.fs0, <<"h", "somefile">>)
    /\ ~Exists(last.fs0, <<"h", "e", "somefile">>)
    /\ IsFile(fs, <<"h", "e", "somefile">>)
    /\ ~Exists(fs, <<"h", "e", "d">>)
    /\ Printed("omitting directory")

\* some call of dispatch made for the last line ran the handler of cd
RanCd == \E k \in DOMAIN last.calls : last.calls[k].handler = "cd"

\* C22: a line whose handling ran no cd, itself or as a vector of a plan,
\* leaves the session's cwd as it was, whatever it returned or raised; and a
\* cd to a path that does not exist or is not a directory returns 1 and
\* leaves cwd as it was.
C22_OnlyCdChangesCwd ==
    last.front # "" =>
        /\ ~RanCd => cwd = last.cwd0
        /\ (Names(last.line, {"cd"}) /\ Len(ArgsOf(last.line)) = 1) =>
              LET Of(e) == (e.ok /\ ~IsDir(last.fs0, e.p)) => last.rc = 1 /\ cwd = last.cwd0
              IN  Of(Resolved(ArgsOf(last.line)[1]))

\* C22: cd somefile, where somefile is a file, returned 1 and the session is
\* where it was
C22_Witness ==
    /\ last.line = "cd somefile"
    /\ last.calls[1].oscwd = <<"h">>
    /\ IsFile(last.fs0, <<"h", "somefile">>)
    /\ last.rc = 1
    /\ cwd = last.cwd0

\* C23: in every state of a session, on either kind of host: every alias of
\* the alias table maps to a name that is in the command table, under which
\* the command of that name is entered; no alias is a name of the command
\* table; the tables are the ones built by _register_builtins, which on a
\* POSIX host are the ones dispatch is modelled with; and no step changes the
\* registry.
C23_RegistryIsConsistentAndFixed ==
    /\ [](/\ \A al \in DOMAIN reg.alias_to_name :
                /\ reg.alias_to_name[al] \in DOMAIN reg.commands
                /\ al \notin DOMAIN reg.commands
          /\ \A n \in DOMAIN reg.commands : reg.commands[n].name = n
          /\ \E windows \in BOOLEAN : reg = _register_builtins(windows)
          /\ DOMAIN reg.commands = CommandNames
          /\ reg = _register_builtins(FALSE) => reg.alias_to_name = alias_to_name)
    /\ [][reg' = reg]_vars

\* C23: lines have been dispatched, among them an alias, on a host where clear
\* has the alias cls, and the alias table holds the four aliases
C23_Witness ==
    /\ Len(last.calls) > 0
    /\ last.line = "q"
    /\ DOMAIN reg.alias_to_name = {"quit", "q", "do", "cls"}
    /\ reg.alias_to_name["cls"] = "clear"
    /\ reg.alias_to_name["q"] = "exit"

\* the calls of dispatch that call k of the last line made from its plan
VectorsOf(k) ==
    { j \in DOMAIN last.calls :
        /\ j > k
        /\ last.calls[j].depth = last.calls[k].depth + 1
        /\ \A i \in (k + 1)..j : last.calls[i].depth > last.calls[k].depth }

\* C24: every call of dispatch that returns, from a front end or from a
\* plan, returns 0, 1, 2, 127 or 130: 0 for a line that is empty once
\* stripped, 2 for a line that cannot be split, and, for an ai that
\* dispatched vectors, the status of the last vector it dispatched.
C24_StatusCodes ==
    \A k \in DOMAIN last.calls :
        LET c == last.calls[k] IN
        c.raised = "none" =>
            /\ c.rc \in {0, 1, 2, 127, 130}
            /\ Strip(c.line) = "" => c.rc = 0
            /\ ~ShlexSplit(Strip(c.line)).ok => c.rc = 2
            /\ (c.handler = "ai" /\ VectorsOf(k) # {}) =>
                  \E j \in VectorsOf(k) :
                      /\ \A i \in VectorsOf(k) : i <= j
                      /\ c.rc = last.calls[j].rc

\* C24: the plan of do "lx then pwd" stopped at its first vector, an unknown
\* command, and ai returned its 127
C24_Witness ==
    /\ last.line = "do \"lx then pwd\""
    /\ Len(last.calls) = 2
    /\ last.calls[1].handler = "ai"
    /\ last.calls[2].line = "lx"
    /\ last.calls[2].rc = 127
    /\ last.calls[1].rc = 127

\* the history file holds the lines read, in order, and nothing else
Logged == IsFile(fs, history_path) /\ ReadLines(fs[history_path].c) = lines_read

AiCalls == { k \in DOMAIN last.calls : last.calls[k].handler = "ai" }

\* the sentence of call k, an ai: " ".join(args)
Sentence(k) == JoinWith(Tail(ShlexSplit(Strip(last.calls[k].line)).toks), " ")

\* the number of tokens shlex.split finds in s
TokenCount(s) == Len(ShlexSplit(s).toks)

\* the number of words of s: what str.split() finds
WordCount(s) ==
    Cardinality({ i \in 1..Len(s) : ~IsSpace(Ch(s, i)) /\ (i = 1 \/ IsSpace(Ch(s, i - 1))) })

\* C26 as stated, a token being what dispatch splits a line into: a nested
\* ai has a sentence of fewer tokens than the ai that dispatched it, and no
\* call is nested deeper than the sentence of the first ai has tokens
C26_NestedSentenceHasFewerTokens ==
    \A k \in AiCalls :
        /\ \A j \in VectorsOf(k) \cap AiCalls : TokenCount(Sentence(j)) < TokenCount(Sentence(k))
        /\ last.calls[k].depth <= TokenCount(Sentence(1))

\* C26, what holds of the code: every call of dispatch made for an ai line
\* ends; a nested ai has a sentence of fewer words than the ai that
\* dispatched it; and no call is nested deeper than the sentence of the first
\* ai has words.
C26_NestedSentenceHasFewerWords ==
    AiCalls # {} =>
        /\ \A k \in DOMAIN last.calls :
              /\ last.calls[k].raised = "none" => last.calls[k].rc >= 0
              /\ last.calls[k].depth <= WordCount(Sentence(1))
        /\ \A k \in AiCalls :
              \A j \in VectorsOf(k) \cap AiCalls : WordCount(Sentence(j)) < WordCount(Sentence(k))

\* C26: an ai whose sentence is an ai whose sentence is an ai, three times
\* over, each inside the quotes of the one before: four nested calls of ai and
\* the unknown command they come down to
C26_Witness ==
    /\ last.line = "ai \"ai 'ai \\\"ai lx\\\"'\""
    /\ Len(last.calls) = 5
    /\ \A k \in 1..4 : last.calls[k].handler = "ai" /\ last.calls[k].depth = k - 1
    /\ last.calls[5].line = "lx" /\ last.calls[5].depth = 4
    /\ Sentence(1) = "ai 'ai \"ai lx\"'"
    /\ Sentence(4) = "lx"
    /\ last.rc = 127

=============================================================================
